---------------------------- MODULE Spec2Model ----------------------------
(***************************************************************************)
(* Verification model of LANOT_ceniza (detect_ash.py).                     *)
(*                                                                         *)
(* SpecAsh    : the per-pixel ash classification of main() on a window of  *)
(*              one row, stage by stage (mask, BTDs, texture, regime       *)
(*              rules, threshold refinement, phase refinement, nodata).    *)
(* SpecMoment : the moment parser (parse_moment_string, normalize_moment)  *)
(*              applied to moment strings given as character sequences.    *)
(*                                                                         *)
(* Number representation.  A float that may be missing is a sequence:      *)
(* <<>> is NaN and <<v>> is the finite value v.  Temperatures and their    *)
(* differences are held in tenths of a kelvin, the reflectance c04 in      *)
(* thousandths, angles in whole degrees.  Every comparison with NaN is     *)
(* false, as in IEEE arithmetic.                                           *)
(***************************************************************************)
EXTENDS Integers, Sequences, FiniteSets, TLC

VARIABLES
    pc,               \* position of the run
    px,               \* band stack of the window: pixel -> c04..c15, phase, lat, lon
    sun,              \* solar zenith angle of the scene at finite lat/lon
    valid_data_mask,  \* pixel -> BOOLEAN
    delta,            \* pixel -> [d1, d2, d3]   (BTDs)
    sza,              \* pixel -> angle or NaN
    tex,              \* pixel -> [media, dst]   (local mean and std of delta1)
    nhood,            \* pixel -> 0..2
    ceniza_tiempo,    \* pixel -> raw code by illumination regime
    ceniza_um1,       \* pixel -> code after the first threshold refinement
    ceniza_um2,       \* pixel -> code after the second threshold refinement
    ceniza,           \* pixel -> final code
    moment_str,       \* the --moment argument, a sequence of characters
    current_dt,       \* parse_moment_string: the moment the range loop is at
    end_dt,           \* parse_moment_string: the end of the range
    moments,          \* parse_moment_string: the tuples appended so far
    outcome,          \* parse_moment_string: [ok, moments]; ~ok is ValueError
    data_to_save,     \* pixel -> code of the raster main writes
    rgba,             \* pixel -> <<r, g, b, a>> of the raster main writes
    arreglo,          \* genera_media_dst: the input array, pixel -> float
    local_mean,       \* genera_media_dst: the kernel_media returned
    column,           \* genera_media_dst: the rows of an array of equal columns
    n_cols,           \* genera_media_dst: the number of columns of that array
    n_jobs,           \* genera_media_dst: the number of worker processes
    indices,          \* genera_media_dst: (start_row, end_row, block_start) per block
    results,          \* genera_media_dst: the filtered block of each worker
    kernel_std_out,   \* genera_media_dst: the kernel_std returned
    png_moments,      \* the moments of the run a PNG is made for
    png_i,            \* the moment create_color_png is running for
    has_timestamp,    \* create_color_png: timestamp is not None
    layer_selection,  \* create_color_png: the layers to draw
    layer_i,          \* create_color_png: place of the loop over the layers
    shp_cache,        \* MapDrawer._shp_cache: the paths with a cached reader
    disk_reads,       \* path -> times shp.Reader read it in the run
    steps,            \* the decorations attempted in this call, with outcome
    png_saved,        \* the moments whose PNG was saved
    utc_now,          \* get_moment: the clock it reads
    conus,            \* get_moment: its argument is_conus
    moment_now,       \* get_moment: the string returned
    clip_region,      \* main: [base, geo] of --clip
    read_bbox,        \* main: the lon/lat box handed to the transformer
    x_coords_full,    \* main: the x of the columns, in metres
    y_coords_full,    \* main: the y of the rows, in metres
    corners,          \* main: [x_min, y_min, x_max, y_max] of the clip, in metres
    x_slice,          \* main: <<first, last + 1>> columns read, 0-based
    y_slice,          \* main: <<first, last + 1>> rows read, 0-based
    reads,            \* main: product -> <<y_slice, x_slice>> its array is read with
    target,           \* main: the grid the raster is reprojected to
    failed_moments,   \* group_and_report_failures: its argument, a list
    groups,           \* group_and_report_failures: the (start, end) pairs printed
    files,            \* the file system: existing directory -> names listed
    moment_info,      \* get_filelist_from_path: (julian, year, month, day)
    use_date_tree,    \* get_filelist_from_path: search in root/year/month/day
    archivos_por_producto,  \* get_filelist_from_path: candidates per product
    lista_archivos,   \* get_filelist_from_path: the paths returned
    args,             \* __main__: [output, png, dry_run, clip_geo]
    now,              \* the clock read by get_moment
    faults,           \* the environment: [ephemeris, mkdir] fail or not
    output_kind,      \* what --output names on disk: "none", "dir" or "file"
    moment_list,      \* __main__: the moments to check
    momentos_validos, \* __main__: the moments with the seven products
    momentos_fallidos,\* __main__: the julian strings of the other moments
    i_moment,         \* __main__: place of the running for loop in its list
    attempted,        \* the moments main was called for, in call order
    written,          \* the files written: [moment, path, kind], in order
    uncaught          \* the exception that ended the run, "none" if none

ashVars == <<px, sun, valid_data_mask, delta, sza, tex, nhood,
             ceniza_tiempo, ceniza_um1, ceniza_um2, ceniza>>
momentVars == <<moment_str, current_dt, end_dt, moments, outcome>>
reportVars == <<failed_moments, groups>>
resolverVars == <<files, moment_info, use_date_tree, archivos_por_producto,
                  lista_archivos>>
runVars == <<args, now, faults, output_kind, moment_list, momentos_validos,
             momentos_fallidos, i_moment, attempted, written, uncaught>>
extVars == <<reportVars, resolverVars, runVars>>
rasterVars == <<data_to_save, rgba>>
clipVars == <<clip_region, read_bbox, x_coords_full, y_coords_full, corners,
             x_slice, y_slice, reads, target>>
kernelVars == <<arreglo, local_mean>>
blockVars == <<column, n_cols, n_jobs, indices, results, kernel_std_out>>
pngVars == <<png_moments, png_i, has_timestamp, layer_selection, layer_i,
            shp_cache, disk_reads, steps, png_saved>>
clockVars == <<utc_now, conus, moment_now>>
restVars == <<rasterVars, clipVars, kernelVars, blockVars, pngVars, clockVars>>
vars == <<pc, ashVars, momentVars, restVars, extVars>>

(***************************************************************************)
(* Floats with NaN                                                         *)
(***************************************************************************)
NaN == <<>>
F(v) == <<v>>
isfinite(a) == a # NaN
Val(a) == a[1]

Sub(a, b) == IF isfinite(a) /\ isfinite(b) THEN F(Val(a) - Val(b)) ELSE NaN
Lt(a, b) == isfinite(a) /\ isfinite(b) /\ Val(a) < Val(b)
Le(a, b) == isfinite(a) /\ isfinite(b) /\ Val(a) <= Val(b)
Gt(a, b) == isfinite(a) /\ isfinite(b) /\ Val(a) > Val(b)
Ge(a, b) == isfinite(a) /\ isfinite(b) /\ Val(a) >= Val(b)
Eq(a, b) == isfinite(a) /\ isfinite(b) /\ Val(a) = Val(b)

\* whole.tenth kelvin in tenths of a kelvin (sign carried by both parts)
Deci(whole, tenth) == 10 * whole + tenth

(***************************************************************************)
(* The window                                                              *)
(***************************************************************************)
AshCols == 2

Pixels == {<<1, j>> : j \in 1..AshCols}

RECURSIVE SumOver(_, _)
SumOver(f, S) ==
    IF S = {} THEN 0
    ELSE LET q == CHOOSE q \in S : TRUE
         IN  f[q] + SumOver(f, S \ {q})

Abs(n) == IF n < 0 THEN 0 - n ELSE n

(***************************************************************************)
(* genera_media_dst: local mean and standard deviation ignoring NaN.       *)
(* The mean of a window is kept as the exact fraction s/n and the          *)
(* standard deviation as sqrt(d)/n with d = n*sum(x^2) - sum(x)^2.         *)
(***************************************************************************)
kernel_size == 5

\* the cells of the k x k window centred at p that lie inside the array;
\* cells outside are padded (0 for sum and count, NaN for the std filter)
Window(p, k, dom) ==
    {q \in dom : Abs(q[1] - p[1]) <= k \div 2 /\ Abs(q[2] - p[2]) <= k \div 2}

FiniteIn(A, W) == {q \in W : isfinite(A[q])}

\* ndimage.uniform_filter(f, size=k, mode='constant', cval=0) * k**2 at p:
\* the sum of f over the window centred at p; the cells of the window
\* outside the array are padded with 0 and add nothing
uniform_sum(f, p, k) == SumOver(f, Window(p, k, DOMAIN f))

\* V = arreglo.copy(); V[np.isnan(V)] = 0
ZeroFilled(A) == [q \in DOMAIN A |-> IF isfinite(A[q]) THEN Val(A[q]) ELSE 0]

\* variant: every cell counted, NaN or not
CountAll(A) == [q \in DOMAIN A |-> 1]

\* N = np.ones(arreglo.shape); N[np.isnan(arreglo)] = 0
CountFinite(A) == [q \in DOMAIN A |-> IF isfinite(A[q]) THEN 1 ELSE 0]

kernel_media(A, k) ==
    LET V == ZeroFilled(A)
        N == CountFinite(A)
    IN  [p \in DOMAIN A |->
            LET suma_local == uniform_sum(V, p, k)
                conteo_local == uniform_sum(N, p, k)
            IN  IF conteo_local # 0
                THEN F([s |-> suma_local, n |-> conteo_local])
                ELSE NaN]

\* np.nanstd over the finite cells of the window; NaN for an empty window
nanstd(A, W) ==
    LET n  == Cardinality(W)
        V  == [q \in W |-> Val(A[q])]
        V2 == [q \in W |-> Val(A[q]) * Val(A[q])]
        s  == SumOver(V, W)
    IN  IF n = 0 THEN NaN
        ELSE F([d |-> n * SumOver(V2, W) - s * s, n |-> n])

kernel_std(A, k) ==
    [p \in DOMAIN A |-> nanstd(A, FiniteIn(A, Window(p, k, DOMAIN A)))]

genera_media_dst(A, k) ==
    LET m == kernel_media(A, k)
        s == kernel_std(A, k)
    IN  [p \in DOMAIN A |-> [media |-> m[p], dst |-> s[p]]]

\* x - media*dst < t, all in kelvin; x and t are given in tenths.
\* media*dst = s*sqrt(d) / (100*nm*ns), so the test is
\*   s*sqrt(d) > 10*nm*ns*(x - t), decided exactly by signs and squares.
TextureBelow(x, media, dst, t) ==
    /\ isfinite(x) /\ isfinite(media) /\ isfinite(dst)
    /\ LET a  == Val(media).s
           d  == Val(dst).d
           b  == 10 * Val(media).n * Val(dst).n * (Val(x) - t)
       IN  IF b < 0
           THEN a >= 0 \/ a * a * d < b * b
           ELSE a > 0 /\ a * a * d > b * b

(***************************************************************************)
(* Inputs of the classification: a window of one row.  Pixel <<1,1>> takes *)
(* every combination of the band values below; the other pixels are its    *)
(* neighbours in the texture kernel and take a few values of delta1,       *)
(* one of them missing.                                                    *)
(***************************************************************************)
BandNames == {"c04", "c07", "c11", "c13", "c14", "c15", "phase", "lat", "lon"}

\* a pixel given by c13, the three BTDs, c04 and the cloud phase
MkPixel(t13, d1, d2, d3, r04, ph) ==
    [c04 |-> F(r04), c07 |-> F(t13 + d3), c11 |-> F(t13 + d2), c13 |-> F(t13),
     c14 |-> F(t13), c15 |-> F(t13 - d1), phase |-> F(ph),
     lat |-> F(19), lon |-> F(0 - 98)]

C13Values == {Deci(240, 0), Deci(280, 0)}
D1Values == {Deci(0 - 2, 0), 0, Deci(1, 0)}
D2Values == {Deci(3, 0), 0, Deci(0, 0 - 3), Deci(0, 0 - 5), Deci(0 - 1, 0),
             Deci(0 - 1, 0 - 2), Deci(0 - 1, 0 - 5), Deci(0 - 2, 0)}
D3Values == {0, Deci(0, 5), Deci(1, 5), Deci(2, 0), Deci(3, 0)}
C04Values == {2, 500}
PhaseValues == 0..4
SzaValues == {30, 69, 70, 85, 86, 100}

FinitePixels ==
    {MkPixel(t[1], t[2], t[3], t[4], t[5], t[6]) :
        t \in C13Values \X D1Values \X D2Values \X D3Values \X C04Values \X PhaseValues}

\* pixels with exactly one missing band, over every BTD combination
OneMissing ==
    {[b EXCEPT ![k] = NaN] :
        b \in {MkPixel(Deci(240, 0), t[1], t[2], t[3], 500, 1) :
                  t \in D1Values \X D2Values \X D3Values},
        k \in BandNames}

FocusPixels == FinitePixels \cup OneMissing

NeighbourPixels ==
    {MkPixel(Deci(240, 0), d1, Deci(3, 0), Deci(3, 0), 500, 0) :
        d1 \in {Deci(0 - 2, 0), 0, Deci(5, 0)}}
    \cup {[MkPixel(Deci(240, 0), 0, 0, 0, 500, 0) EXCEPT !.c13 = NaN]}

Unset == <<>>

\* the variables of the other parts of the program, not in use
ReportUnset == failed_moments = Unset /\ groups = Unset
ResolverUnset ==
    /\ files = Unset /\ moment_info = Unset /\ use_date_tree = Unset
    /\ archivos_por_producto = Unset /\ lista_archivos = Unset
RunUnset ==
    /\ args = Unset /\ now = Unset /\ faults = Unset /\ output_kind = Unset
    /\ moment_list = Unset /\ momentos_validos = Unset
    /\ momentos_fallidos = Unset /\ i_moment = Unset /\ attempted = Unset
    /\ written = Unset /\ uncaught = Unset
RasterUnset == data_to_save = Unset /\ rgba = Unset
ClipUnset ==
    /\ clip_region = Unset /\ read_bbox = Unset
    /\ x_coords_full = Unset /\ y_coords_full = Unset /\ corners = Unset
    /\ x_slice = Unset /\ y_slice = Unset /\ reads = Unset /\ target = Unset
KernelUnset == arreglo = Unset /\ local_mean = Unset
BlockUnset ==
    /\ column = Unset /\ n_cols = Unset /\ n_jobs = Unset
    /\ indices = Unset /\ results = Unset /\ kernel_std_out = Unset
PngUnset ==
    /\ png_moments = Unset /\ png_i = Unset /\ has_timestamp = Unset
    /\ layer_selection = Unset /\ layer_i = Unset /\ shp_cache = Unset
    /\ disk_reads = Unset /\ steps = Unset /\ png_saved = Unset
ClockUnset == utc_now = Unset /\ conus = Unset /\ moment_now = Unset
RestUnset ==
    /\ RasterUnset /\ ClipUnset /\ KernelUnset /\ BlockUnset /\ PngUnset
    /\ ClockUnset
AshUnset ==
    /\ px = Unset /\ sun = Unset
    /\ valid_data_mask = Unset /\ delta = Unset /\ sza = Unset /\ tex = Unset
    /\ nhood = Unset /\ ceniza_tiempo = Unset /\ ceniza_um1 = Unset
    /\ ceniza_um2 = Unset /\ ceniza = Unset
MomentUnset ==
    /\ moment_str = Unset /\ outcome = Unset
    /\ current_dt = Unset /\ end_dt = Unset /\ moments = Unset
ExtUnset == ReportUnset /\ ResolverUnset /\ RunUnset

InitAsh ==
    /\ pc = "bands"
    /\ \E f \in FocusPixels, g \in [Pixels \ {<<1, 1>>} -> NeighbourPixels] :
          px = [p \in Pixels |-> IF p = <<1, 1>> THEN f ELSE g[p]]
    /\ sun \in SzaValues
    /\ valid_data_mask = Unset /\ delta = Unset /\ sza = Unset /\ tex = Unset
    /\ nhood = Unset /\ ceniza_tiempo = Unset /\ ceniza_um1 = Unset
    /\ ceniza_um2 = Unset /\ ceniza = Unset
    /\ moment_str = Unset /\ outcome = Unset
    /\ current_dt = Unset /\ end_dt = Unset /\ moments = Unset
    /\ RestUnset /\ ExtUnset

(***************************************************************************)
(* main(): the classification, stage by stage                              *)
(***************************************************************************)
\* np.select: the value of the first condition that holds, else the default
select2(c1, v1, c2, v2, default) ==
    IF c1 THEN v1 ELSE IF c2 THEN v2 ELSE default

\* get_sun_zenith_angle: arccos of a clipped cosine, so an angle in 0..180
\* for finite lat/lon and NaN otherwise; neighbouring pixels share the angle
get_sun_zenith_angle(lat, lon, angle) ==
    IF isfinite(lat) /\ isfinite(lon) THEN F(angle) ELSE NaN

\* variant: the mask of the band stack alone, without the lat/lon update
ValidPixelBandsOnly(b) ==
    /\ isfinite(b.c04) /\ isfinite(b.c07) /\ isfinite(b.c11)
    /\ isfinite(b.c13) /\ isfinite(b.c14) /\ isfinite(b.c15)
    /\ isfinite(b.phase)

ValidPixel(b) ==
    /\ isfinite(b.c04) /\ isfinite(b.c07) /\ isfinite(b.c11)
    /\ isfinite(b.c13) /\ isfinite(b.c14) /\ isfinite(b.c15)
    /\ isfinite(b.phase)
    /\ isfinite(b.lon) /\ isfinite(b.lat)

ComputeMask ==
    /\ pc = "bands"
    /\ valid_data_mask' = [p \in Pixels |-> ValidPixel(px[p])]
    /\ pc' = "masked"
    /\ UNCHANGED <<px, sun, delta, sza, tex, nhood, ceniza_tiempo, ceniza_um1,
                   ceniza_um2, ceniza, momentVars, restVars, extVars>>

ComputeBTD ==
    /\ pc = "masked"
    /\ delta' = [p \in Pixels |->
                    [d1 |-> Sub(px[p].c13, px[p].c15),
                     d2 |-> Sub(px[p].c11, px[p].c13),
                     d3 |-> Sub(px[p].c07, px[p].c13)]]
    /\ sza' = [p \in Pixels |-> get_sun_zenith_angle(px[p].lat, px[p].lon, sun)]
    /\ pc' = "btd"
    /\ UNCHANGED <<px, sun, valid_data_mask, tex, nhood, ceniza_tiempo,
                   ceniza_um1, ceniza_um2, ceniza, momentVars, restVars, extVars>>

Nhood(d1, t) ==
    select2(Lt(d1, F(0)) /\ TextureBelow(d1, t.media, t.dst, Deci(0 - 1, 0)), 1,
            Lt(d1, F(Deci(1, 0))) /\ TextureBelow(d1, t.media, t.dst, Deci(0 - 1, 0)), 2,
            0)

Texture ==
    /\ pc = "btd"
    /\ LET t == genera_media_dst([p \in Pixels |-> delta[p].d1], kernel_size)
       IN  /\ tex' = t
           /\ nhood' = [p \in Pixels |-> Nhood(delta[p].d1, t[p])]
    /\ pc' = "texture"
    /\ UNCHANGED <<px, sun, valid_data_mask, delta, sza, ceniza_tiempo,
                   ceniza_um1, ceniza_um2, ceniza, momentVars, restVars, extVars>>

\* the rule of code 1, common to the three regimes
AshRule(d) == Lt(d.d1, F(0)) /\ Gt(d.d2, F(0)) /\ Gt(d.d3, F(Deci(2, 0)))

\* variant: code 2 demanding delta2 > 0 like code 1
ProbableRuleStrict(d) ==
    Lt(d.d1, F(Deci(1, 0))) /\ Gt(d.d2, F(0)) /\ Gt(d.d3, F(Deci(2, 0)))

\* the BTD part of the rule of code 2, common to the three regimes
ProbableRule(d) ==
    Lt(d.d1, F(Deci(1, 0))) /\ Gt(d.d2, F(Deci(0, 0 - 5))) /\ Gt(d.d3, F(Deci(2, 0)))

ceniza_noche(d, nh) ==
    select2(AshRule(d) \/ nh = 1, 1, ProbableRule(d) \/ nh = 2, 2, 0)

\* c13 < 273.15 K with c13 in tenths: 10*c13 < 27315
ceniza_crepusculo(d, nh, b) ==
    select2(AshRule(d) \/ nh = 1, 1,
            \/ /\ ProbableRule(d) /\ Gt(b.c04, F(2))
               /\ isfinite(b.c13) /\ 10 * Val(b.c13) < 27315
            \/ nh = 2, 2,
            0)

\* variant: the Day rule of code 1 also demanding c04 > 0.002
ceniza_dia_c04(d, nh, b) ==
    select2((AshRule(d) /\ Gt(b.c04, F(2))) \/ nh = 1, 1,
            (ProbableRule(d) /\ Gt(b.c04, F(2))) \/ nh = 2, 2,
            0)

ceniza_dia(d, nh, b) ==
    select2(AshRule(d) \/ nh = 1, 1,
            (ProbableRule(d) /\ Gt(b.c04, F(2))) \/ nh = 2, 2,
            0)

mask_noche(z) == Gt(z, F(85))
mask_dia(z) == Lt(z, F(70))
\* variant: twilight without its two bounds
mask_crepusculo_open(z) == Gt(z, F(70)) /\ Lt(z, F(85))

mask_crepusculo(z) == Ge(z, F(70)) /\ Le(z, F(85))

CenizaTiempo(z, d, nh, b) ==
    IF mask_noche(z) THEN ceniza_noche(d, nh)
    ELSE IF mask_crepusculo(z) THEN ceniza_crepusculo(d, nh, b)
    ELSE IF mask_dia(z) THEN ceniza_dia(d, nh, b)
    ELSE 0

ClassifyRegime ==
    /\ pc = "texture"
    /\ ceniza_tiempo' =
          [p \in Pixels |-> CenizaTiempo(sza[p], delta[p], nhood[p], px[p])]
    /\ pc' = "regime"
    /\ UNCHANGED <<px, sun, valid_data_mask, delta, sza, tex, nhood,
                   ceniza_um1, ceniza_um2, ceniza, momentVars, restVars, extVars>>

\* variant: code 2 with delta2 < -1.5 reset to 0 instead of passed through
CenizaUm1Reset(r, d2) ==
    IF r = 1 THEN 1
    ELSE IF r = 2 /\ Ge(d2, F(Deci(0 - 1, 0))) THEN 2
    ELSE IF r = 2 /\ Ge(d2, F(Deci(0 - 1, 0 - 5))) THEN 3
    ELSE IF r = 2 /\ Lt(d2, F(Deci(0 - 1, 0 - 5))) THEN 0
    ELSE r

CenizaUm1(r, d2) ==
    IF r = 1 THEN 1
    ELSE IF r = 2 /\ Ge(d2, F(Deci(0 - 1, 0))) THEN 2
    ELSE IF r = 2 /\ Ge(d2, F(Deci(0 - 1, 0 - 5))) THEN 3
    ELSE r

\* variant: code 1 and 2 reset only when delta3 is below 0
CenizaUm2Strict(u1, d3) ==
    select2(u1 <= 2 /\ Lt(d3, F(0)), 0,
            u1 >= 3 /\ Le(d3, F(Deci(1, 5))), 0,
            u1)

CenizaUm2(u1, d3) ==
    select2(u1 <= 2 /\ Le(d3, F(0)), 0,
            u1 >= 3 /\ Le(d3, F(Deci(1, 5))), 0,
            u1)

RefineThresholds ==
    /\ pc = "regime"
    /\ ceniza_um1' = [p \in Pixels |-> CenizaUm1(ceniza_tiempo[p], delta[p].d2)]
    /\ ceniza_um2' = [p \in Pixels |->
                         CenizaUm2(CenizaUm1(ceniza_tiempo[p], delta[p].d2),
                                   delta[p].d3)]
    /\ pc' = "refined"
    /\ UNCHANGED <<px, sun, valid_data_mask, delta, sza, tex, nhood,
                   ceniza_tiempo, ceniza, momentVars, restVars, extVars>>

\* variant: the water-cloud cases mapped to the reserved codes 4 and 5
CenizaFinalReserved(u2, phase) ==
    IF u2 = 2 /\ Eq(phase, F(1)) THEN 4
    ELSE IF u2 = 2 /\ Eq(phase, F(4)) THEN 0
    ELSE IF u2 = 3 /\ Eq(phase, F(1)) THEN 5
    ELSE IF u2 = 3 /\ Ge(phase, F(2)) THEN 0
    ELSE u2

\* variant: code 3 kept over phase 2
CenizaFinalAbove2(u2, phase) ==
    IF u2 = 2 /\ Eq(phase, F(1)) THEN 3
    ELSE IF u2 = 2 /\ Eq(phase, F(4)) THEN 0
    ELSE IF u2 = 3 /\ Eq(phase, F(1)) THEN 0
    ELSE IF u2 = 3 /\ Gt(phase, F(2)) THEN 0
    ELSE u2

CenizaFinal(u2, phase) ==
    IF u2 = 2 /\ Eq(phase, F(1)) THEN 3
    ELSE IF u2 = 2 /\ Eq(phase, F(4)) THEN 0
    ELSE IF u2 = 3 /\ Eq(phase, F(1)) THEN 0
    ELSE IF u2 = 3 /\ Ge(phase, F(2)) THEN 0
    ELSE u2

\* astype(np.uint8) followed by ceniza[~valid_data_mask] = 255
Nodata(code, valid) == IF valid THEN code % 256 ELSE 255

RefinePhase ==
    /\ pc = "refined"
    /\ ceniza' = [p \in Pixels |->
                     Nodata(CenizaFinal(ceniza_um2[p], px[p].phase),
                            valid_data_mask[p])]
    /\ pc' = "classified"
    /\ UNCHANGED <<px, sun, valid_data_mask, delta, sza, tex, nhood,
                   ceniza_tiempo, ceniza_um1, ceniza_um2, momentVars, restVars, extVars>>

(***************************************************************************)
(* main(): the RGBA raster                                                 *)
(***************************************************************************)
\* rio.reproject(resampling=Resampling.nearest, nodata=255): a pixel of the
\* result carries the code of the source pixel nearest to it, or 255 when it
\* falls outside the source; Outside stands for no source pixel, and the
\* grids considered are the source grid displaced by up to one column
Outside == <<0, 0>>
Shifted(p, d) ==
    IF <<p[1], p[2] + d>> \in Pixels THEN <<p[1], p[2] + d>> ELSE Outside
Reprojections == {[p \in Pixels |-> Shifted(p, d)] : d \in -1..1}

\* output_da.values: ceniza.astype(np.uint8), reprojected with --clip ...geo
OutputValues(codes, reproject, src) ==
    [p \in Pixels |->
        IF ~reproject THEN codes[p] % 256
        ELSE IF src[p] = Outside THEN 255 ELSE codes[src[p]] % 256]

\* variant: clear pixels painted opaque black
color_table_opaque ==
    << [value |-> 0,   rgba |-> <<0, 0, 0, 255>>],
       [value |-> 1,   rgba |-> <<255, 0, 0, 255>>],
       [value |-> 2,   rgba |-> <<255, 165, 0, 255>>],
       [value |-> 3,   rgba |-> <<255, 255, 0, 255>>],
       [value |-> 4,   rgba |-> <<0, 255, 0, 255>>],
       [value |-> 5,   rgba |-> <<0, 0, 255, 255>>],
       [value |-> 255, rgba |-> <<0, 0, 0, 0>>] >>

\* the dict color_table in the order of its items
color_table ==
    << [value |-> 0,   rgba |-> <<0, 0, 0, 0>>],
       [value |-> 1,   rgba |-> <<255, 0, 0, 255>>],
       [value |-> 2,   rgba |-> <<255, 165, 0, 255>>],
       [value |-> 3,   rgba |-> <<255, 255, 0, 255>>],
       [value |-> 4,   rgba |-> <<0, 255, 0, 255>>],
       [value |-> 5,   rgba |-> <<0, 0, 255, 255>>],
       [value |-> 255, rgba |-> <<0, 0, 0, 0>>] >>

\* rgba = np.zeros(...) and the loop over color_table.items(), at one pixel:
\* quad is what the pixel holds before item k is applied
RECURSIVE Painted(_, _, _)
Painted(value, k, quad) ==
    IF k > Len(color_table) THEN quad
    ELSE Painted(value, k + 1,
                 IF value = color_table[k].value THEN color_table[k].rgba
                 ELSE quad)

WriteRaster ==
    /\ pc = "classified"
    /\ \E reproject \in BOOLEAN, src \in Reprojections :
          /\ ~reproject => \A p \in Pixels : src[p] = p
          /\ data_to_save' = OutputValues(ceniza, reproject, src)
    /\ rgba' = [p \in Pixels |-> Painted(data_to_save'[p], 1, <<0, 0, 0, 0>>)]
    /\ pc' = "saved"
    /\ UNCHANGED <<ashVars, momentVars, clipVars, kernelVars, blockVars,
                   pngVars, clockVars, extVars>>

NextAsh ==
    \/ ComputeMask
    \/ ComputeBTD
    \/ Texture
    \/ ClassifyRegime
    \/ RefineThresholds
    \/ RefinePhase
    \/ WriteRaster

SpecAsh == InitAsh /\ [][NextAsh]_vars


(***************************************************************************)
(* Properties of the classification                                        *)
(***************************************************************************)
Classified == pc = "classified"

\* the BTDs of a pixel read from its bands (tenths of a kelvin)
BandsFinite(b) == \A k \in BandNames : b[k] # <<>>
D1(b) == b.c13[1] - b.c15[1]
D2(b) == b.c11[1] - b.c13[1]
D3(b) == b.c07[1] - b.c13[1]
Uniform == \A p, q \in Pixels : px[p].c13 = px[q].c13 /\ px[p].c15 = px[q].c15

\* C1: after classification a pixel carries 255 exactly when at least one of
\* c04, c07, c11, c13, c14, c15, phase, lat, lon is not finite.
NodataIffInvalid ==
    Classified =>
        \A p \in Pixels :
            (ceniza[p] = 255) <=> (\E k \in BandNames : px[p][k] = <<>>)

\* C1 witness: a pixel whose only missing band is c11 carries 255 next to a
\* complete pixel that carries an ash code.
NodataWitness ==
    /\ Classified
    /\ \E p, q \in Pixels :
          /\ px[p].c11 = <<>>
          /\ \A k \in BandNames \ {"c11"} : px[p][k] # <<>>
          /\ ceniza[p] = 255
          /\ BandsFinite(px[q]) /\ ceniza[q] \in 1..3

\* C2: the final code of every pixel is one of 0, 1, 2, 3, 255.
FinalCodeRange ==
    Classified => \A p \in Pixels : ceniza[p] \in {0, 1, 2, 3, 255}

\* C2 witness: a probable-ash pixel over a water cloud ends as code 3.
FinalCodeWitness ==
    /\ Classified
    /\ \E p \in Pixels :
          BandsFinite(px[p]) /\ ceniza_um2[p] = 2 /\ px[p].phase = <<1>>
          /\ ceniza[p] = 3

\* scenario E2E-2: Day pixel, uniform neighbourhood, c13 = c15 = c11 = 240,
\* c07 = 243, c04 = 0.5, phase = 2, sza = 30
IsE2E2(p) ==
    /\ px[p].c13 = <<2400>> /\ px[p].c15 = <<2400>> /\ px[p].c11 = <<2400>>
    /\ px[p].c07 = <<2430>> /\ px[p].c04 = <<500>> /\ px[p].phase = <<2>>
    /\ px[p].c14 # <<>> /\ px[p].lat # <<>> /\ px[p].lon # <<>>
    /\ sza[p] = <<30>>
    /\ Uniform

\* C3 as stated: the pixel of scenario E2E-2 gets raw code 0 and final code 0.
E2E2Clear ==
    Classified =>
        \A p \in Pixels : IsE2E2(p) => ceniza_tiempo[p] = 0 /\ ceniza[p] = 0

\* C3 amended: the pixel of scenario E2E-2 passes the Day rule of code 2
\* (delta1 < 1, delta2 > -0.5, delta3 > 2, c04 > 0.002), so its raw code is 2,
\* both threshold refinements keep 2 and, phase being 2, the final code is 2.
E2E2Probable ==
    Classified =>
        \A p \in Pixels :
            IsE2E2(p) => /\ ceniza_tiempo[p] = 2
                         /\ ceniza_um1[p] = 2 /\ ceniza_um2[p] = 2
                         /\ ceniza[p] = 2

\* C3 witness: the scenario pixel has been classified.
E2E2Witness == Classified /\ \E p \in Pixels : IsE2E2(p) /\ nhood[p] = 0

\* C4: a valid pixel with delta1 < 0, delta2 > 0 and delta3 > 2 has raw code 1
\* and final code 1 in every regime, whatever c04, phase and texture.
AshRuleGivesOne ==
    Classified =>
        \A p \in Pixels :
            (BandsFinite(px[p]) /\ D1(px[p]) < 0 /\ D2(px[p]) > 0 /\ D3(px[p]) > 20)
                => ceniza_tiempo[p] = 1 /\ ceniza[p] = 1

\* C4 witness: a Day pixel at the c04 threshold that meets the three BTD tests,
\* with a non-uniform neighbourhood, ends as code 1.
AshRuleWitness ==
    /\ Classified
    /\ \E p \in Pixels :
          /\ BandsFinite(px[p]) /\ D1(px[p]) < 0 /\ D2(px[p]) > 0 /\ D3(px[p]) > 20
          /\ sza[p] = <<30>> /\ px[p].c04 = <<2>> /\ ~Uniform
          /\ ceniza[p] = 1

\* the raw code of the regime that the angle z belongs to
RegimeCode(z, d, nh, b) ==
    IF z > 85 THEN ceniza_noche(d, nh)
    ELSE IF z >= 70 THEN ceniza_crepusculo(d, nh, b)
    ELSE ceniza_dia(d, nh, b)

\* C5: every finite sza lies in exactly one of Night (> 85), Twilight
\* (70..85 inclusive) and Day (< 70) and R_time is the raw code of that regime;
\* the default 0 is taken only when sza is not finite.
RegimesPartition ==
    pc \in {"regime", "refined", "classified"} =>
        \A p \in Pixels :
            IF sza[p] # <<>>
            THEN /\ Cardinality({m \in {"noche", "crepusculo", "dia"} :
                        \/ m = "noche" /\ mask_noche(sza[p])
                        \/ m = "crepusculo" /\ mask_crepusculo(sza[p])
                        \/ m = "dia" /\ mask_dia(sza[p])}) = 1
                 /\ mask_noche(sza[p]) <=> sza[p][1] > 85
                 /\ mask_dia(sza[p]) <=> sza[p][1] < 70
                 /\ ceniza_tiempo[p] =
                        RegimeCode(sza[p][1], delta[p], nhood[p], px[p])
            ELSE ceniza_tiempo[p] = 0

\* C5 witness: a pixel at the twilight bound sza = 70 has taken the twilight
\* code, which differs from the code the Day rules give it.
RegimesWitness ==
    /\ pc = "regime"
    /\ \E p \in Pixels :
          /\ sza[p] = <<70>>
          /\ ceniza_tiempo[p] = 0
          /\ ceniza_dia(delta[p], nhood[p], px[p]) = 2

\* the value of U1 for raw code r and finite delta2 = d2 (tenths)
ExpectedU1(r, d2) ==
    CASE r = 1 -> 1
      [] r = 2 /\ d2 >= 0 - 10 -> 2
      [] r = 2 /\ d2 >= 0 - 15 /\ d2 < 0 - 10 -> 3
      [] r = 2 /\ d2 < 0 - 15 -> 2
      [] OTHER -> r

\* the value of U2 for U1 = u1 and finite delta3 = d3 (tenths)
ExpectedU2(u1, d3) ==
    IF (u1 <= 2 /\ d3 <= 0) \/ (u1 >= 3 /\ d3 <= 15) THEN 0 ELSE u1

\* C6: U1 and U2 as functions of (R_time, delta2, delta3); a pixel with
\* R_time = 2, delta2 = -1.2, delta3 = 0.5 has U1 = 3, U2 = 0 and final 0.
ThresholdRefinement ==
    /\ pc \in {"refined", "classified"} =>
          \A p \in Pixels :
              (px[p].c07 # <<>> /\ px[p].c11 # <<>> /\ px[p].c13 # <<>>) =>
                  /\ ceniza_um1[p] = ExpectedU1(ceniza_tiempo[p], D2(px[p]))
                  /\ ceniza_um2[p] = ExpectedU2(ceniza_um1[p], D3(px[p]))
    /\ Classified =>
          \A p \in Pixels :
              (/\ BandsFinite(px[p]) /\ ceniza_tiempo[p] = 2
               /\ D2(px[p]) = 0 - 12 /\ D3(px[p]) = 5)
                  => ceniza_um1[p] = 3 /\ ceniza_um2[p] = 0 /\ ceniza[p] = 0

\* C6 witness: scenario E2E-3 on a Day pixel.
ThresholdWitness ==
    /\ Classified
    /\ \E p \in Pixels :
          /\ BandsFinite(px[p]) /\ sza[p] = <<30>> /\ ceniza_tiempo[p] = 2
          /\ D2(px[p]) = 0 - 12 /\ D3(px[p]) = 5
          /\ ceniza_um1[p] = 3 /\ ceniza_um2[p] = 0 /\ ceniza[p] = 0

\* the final code for U2 = u2 and cloud phase ph
ExpectedFinal(u2, ph) ==
    CASE u2 = 2 /\ ph = 1 -> 3
      [] u2 = 2 /\ ph = 4 -> 0
      [] u2 = 3 /\ (ph = 1 \/ ph >= 2) -> 0
      [] OTHER -> u2

\* C7: the final code of a valid pixel is 3 for U2 = 2 over phase 1, 0 for
\* U2 = 2 over phase 4, 0 for U2 = 3 over phase 1 or phase >= 2, and U2
\* otherwise; the Twilight pixel of E2E-4 ends as 3.
PhaseRefinement ==
    Classified =>
        \A p \in Pixels :
            BandsFinite(px[p]) =>
                /\ ceniza[p] = ExpectedFinal(ceniza_um2[p], px[p].phase[1])
                /\ (/\ sza[p][1] >= 70 /\ sza[p][1] <= 85
                    /\ ceniza_tiempo[p] = 2 /\ D2(px[p]) = 0 - 3
                    /\ D3(px[p]) = 30 /\ px[p].phase = <<1>>) => ceniza[p] = 3

\* C7 witness: scenario E2E-4.
PhaseWitness ==
    /\ Classified
    /\ \E p \in Pixels :
          /\ BandsFinite(px[p]) /\ sza[p] = <<85>>
          /\ ceniza_tiempo[p] = 2 /\ D2(px[p]) = 0 - 3 /\ D3(px[p]) = 30
          /\ px[p].phase = <<1>>
          /\ ceniza_um1[p] = 2 /\ ceniza_um2[p] = 2 /\ ceniza[p] = 3


(***************************************************************************)
(* Moment strings.  A string is a sequence of one-character strings; the   *)
(* alphabet of the model is the ten digits and the dash.                   *)
(***************************************************************************)
Digits == <<"0", "1", "2", "3", "4", "5", "6", "7", "8", "9">>
DigitChars == {Digits[i] : i \in 1..Len(Digits)}
DigitVal(c) == (CHOOSE i \in 1..Len(Digits) : Digits[i] = c) - 1

\* Python s[a:b]
Slice(s, a, b) ==
    LET hi == IF b > Len(s) THEN Len(s) ELSE b
    IN  IF a >= hi THEN <<>> ELSE SubSeq(s, a + 1, hi)

IsDigits(s) == s # <<>> /\ \A i \in 1..Len(s) : s[i] \in DigitChars

RECURSIVE ToInt(_)
ToInt(s) ==
    IF s = <<>> THEN 0
    ELSE 10 * ToInt(SubSeq(s, 1, Len(s) - 1)) + DigitVal(s[Len(s)])

\* int(s): an optional sign and digits; <<>> stands for ValueError
int(s) ==
    IF IsDigits(s) THEN <<ToInt(s)>>
    ELSE IF s # <<>> /\ s[1] = "-" /\ IsDigits(Tail(s)) THEN <<0 - ToInt(Tail(s))>>
    ELSE <<>>

RECURSIVE FmtNat(_)
FmtNat(n) ==
    IF n < 10 THEN <<Digits[n + 1]>>
    ELSE FmtNat(n \div 10) \o <<Digits[(n % 10) + 1]>>

RECURSIVE Pad(_, _)
Pad(s, w) == IF Len(s) >= w THEN s ELSE Pad(<<"0">> \o s, w)

\* f"{n:0wd}" and the zero-padded strftime fields
Fmt(n, w) == Pad(FmtNat(n), w)

(***************************************************************************)
(* The calendar of datetime                                                *)
(***************************************************************************)
IsLeap(y) == y % 4 = 0 /\ (y % 100 # 0 \/ y % 400 = 0)

DaysInMonth(y, m) ==
    IF m = 2 THEN (IF IsLeap(y) THEN 29 ELSE 28)
    ELSE IF m \in {4, 6, 9, 11} THEN 30 ELSE 31

DaysInYear(y) == IF IsLeap(y) THEN 366 ELSE 365

RECURSIVE DaysBeforeMonth(_, _)
DaysBeforeMonth(y, m) ==
    IF m <= 1 THEN 0 ELSE DaysBeforeMonth(y, m - 1) + DaysInMonth(y, m - 1)

\* date.timetuple().tm_yday
tm_yday(y, m, d) == DaysBeforeMonth(y, m) + d

RECURSIVE MonthWalk(_, _, _)
MonthWalk(y, m, r) ==
    IF r <= DaysInMonth(y, m) THEN [year |-> y, month |-> m, day |-> r]
    ELSE MonthWalk(y, m + 1, r - DaysInMonth(y, m))

\* the date that strptime gives to day-of-year j of year y: the ordinal of
\* 1 January plus j - 1, so day 366 of a common year is 1 January of the next
FromYday(y, j) ==
    IF j > DaysInYear(y) THEN MonthWalk(y + 1, 1, j - DaysInYear(y))
    ELSE MonthWalk(y, 1, j)

Dt(y, m, d, hh, mm) == [year |-> y, month |-> m, day |-> d, hour |-> hh, minute |-> mm]

\* strptime(s, "%Y%m%d"), s of 8 characters; <<>> stands for ValueError
strptime_Ymd(s) ==
    LET y == ToInt(Slice(s, 0, 4))
        m == ToInt(Slice(s, 4, 6))
        d == ToInt(Slice(s, 6, 8))
    IN  IF /\ Len(s) = 8 /\ IsDigits(s)
           /\ y >= 1 /\ m \in 1..12 /\ d >= 1 /\ d <= DaysInMonth(y, m)
        THEN <<Dt(y, m, d, 0, 0)>>
        ELSE <<>>

\* strptime(s, "%Y%m%d%H%M"), s of 12 characters
strptime_YmdHM(s) ==
    LET date == strptime_Ymd(Slice(s, 0, 8))
        hh == ToInt(Slice(s, 8, 10))
        mm == ToInt(Slice(s, 10, 12))
    IN  IF /\ Len(s) = 12 /\ IsDigits(s) /\ date # <<>>
           /\ hh <= 23 /\ mm <= 59
        THEN <<[date[1] EXCEPT !.hour = hh, !.minute = mm]>>
        ELSE <<>>

\* strptime(s, "%Y%j"), s of 7 characters
strptime_Yj(s) ==
    LET y == ToInt(Slice(s, 0, 4))
        j == ToInt(Slice(s, 4, 7))
    IN  IF Len(s) = 7 /\ IsDigits(s) /\ y >= 1 /\ j \in 1..366
        THEN LET date == FromYday(y, j)
             IN  <<Dt(date.year, date.month, date.day, 0, 0)>>
        ELSE <<>>

\* dt.replace(hour=h, minute=m) with h, m results of int(); <<>> on ValueError
replace_hm(dt, h, m) ==
    IF h # <<>> /\ m # <<>> /\ h[1] \in 0..23 /\ m[1] \in 0..59
    THEN <<[dt EXCEPT !.hour = h[1], !.minute = m[1]]>>
    ELSE <<>>

DtKey(dt) == <<dt.year, dt.month, dt.day, dt.hour, dt.minute>>

RECURSIVE LexLess(_, _)
LexLess(a, b) ==
    /\ a # <<>>
    /\ \/ a[1] < b[1]
       \/ a[1] = b[1] /\ LexLess(Tail(a), Tail(b))

DtGt(a, b) == LexLess(DtKey(b), DtKey(a))

NextDay(dt) ==
    IF dt.day < DaysInMonth(dt.year, dt.month) THEN [dt EXCEPT !.day = dt.day + 1]
    ELSE IF dt.month < 12 THEN [dt EXCEPT !.month = dt.month + 1, !.day = 1]
    ELSE [dt EXCEPT !.year = dt.year + 1, !.month = 1, !.day = 1]

\* dt + timedelta(minutes=n), n below one day
AddMinutes(dt, n) ==
    LET t == dt.hour * 60 + dt.minute + n
        base == IF t >= 1440 THEN NextDay(dt) ELSE dt
    IN  [base EXCEPT !.hour = (t % 1440) \div 60, !.minute = t % 60]

(***************************************************************************)
(* normalize_moment and parse_moment_string                                *)
\* the colour the fixed palette gives to a code
PaletteColour(code) ==
    CASE code = 1 -> <<255, 0, 0>>
      [] code = 2 -> <<255, 165, 0>>
      [] code = 3 -> <<255, 255, 0>>
      [] code = 4 -> <<0, 255, 0>>
      [] code = 5 -> <<0, 0, 255>>
      [] OTHER -> <<>>
Saved == pc = "saved"

\* C20: in the RGBA raster written by main, every pixel whose code is neither
\* 0 nor 255 has alpha 255 and the colour of its code in the fixed palette,
\* and every pixel whose code is 0 or 255 has alpha 0.
PaletteInvariance ==
    Saved =>
        \A p \in Pixels :
            /\ data_to_save[p] \notin {0, 255} =>
                  /\ rgba[p][4] = 255
                  /\ <<rgba[p][1], rgba[p][2], rgba[p][3]>>
                        = PaletteColour(data_to_save[p])
            /\ data_to_save[p] \in {0, 255} => rgba[p][4] = 0

\* a written raster with an ash pixel beside a transparent one
PaletteWitness ==
    /\ Saved
    /\ \E p, q \in Pixels :
          data_to_save[p] \in 1..3 /\ data_to_save[q] \in {0, 255}

(***************************************************************************)
interval_minutes == 5

Failure == [ok |-> FALSE, moments |-> <<>>]
Success(ms) == [ok |-> TRUE, moments |-> ms]

\* variant: the day of the year written without zero padding
julian_day_unpadded(date) == Fmt(tm_yday(date.year, date.month, date.day), 1)

\* f"{date_obj.timetuple().tm_yday:03d}"
julian_day(date) == Fmt(tm_yday(date.year, date.month, date.day), 3)

normalize_moment(moment) ==
    IF Len(moment) = 12
    THEN LET year == Slice(moment, 0, 4)
             month == Slice(moment, 4, 6)
             day == Slice(moment, 6, 8)
             hhmm == Slice(moment, 8, 12)
             date_obj == strptime_Ymd(year \o month \o day)
         IN  IF date_obj = <<>> THEN Failure
             ELSE Success(<< <<year \o julian_day(date_obj[1]) \o hhmm,
                               year, month, day>> >>)
    ELSE IF Len(moment) = 11
    THEN LET year == Slice(moment, 0, 4)
             date_obj == strptime_Yj(year \o Slice(moment, 4, 7))
         IN  IF date_obj = <<>> THEN Failure
             ELSE Success(<< <<moment, year, Fmt(date_obj[1].month, 2),
                               Fmt(date_obj[1].day, 2)>> >>)
    ELSE Failure

\* the tuple appended for current_dt
MomentTuple(dt) ==
    <<Fmt(dt.year, 4) \o Fmt(tm_yday(dt.year, dt.month, dt.day), 3)
          \o Fmt(dt.hour, 2) \o Fmt(dt.minute, 2),
      Fmt(dt.year, 4), Fmt(dt.month, 2), Fmt(dt.day, 2)>>

\* variant: the loop stopping before the end of the range
LoopContinuesBeforeEnd(current, last) == DtGt(last, current)

\* while current_dt <= end_dt
LoopContinues(current, last) == ~DtGt(current, last)

\* variant: a range of one moment rejected as well
RangeRejectedOrEqual(start_dt, last) == ~DtGt(last, start_dt)

\* the guard of the range order: raise when start_dt > end_dt
RangeRejected(start_dt, last) == DtGt(start_dt, last)

HasDash(s) == \E i \in 1..Len(s) : s[i] = "-"

\* the range branch up to the loop: <<start_dt, end_dt>>, or <<>> on ValueError
RangeBounds(s) ==
    LET b == IF Len(s) = 17
             THEN LET base_date_str == Slice(s, 0, 8)
                      start_time_str == Slice(s, 8, 12)
                      end_time_str == Slice(s, 13, Len(s))
                  IN  <<strptime_YmdHM(base_date_str \o start_time_str),
                        strptime_YmdHM(base_date_str \o end_time_str)>>
             ELSE IF Len(s) = 16
             THEN LET year == Slice(s, 0, 4)
                      julian == Slice(s, 4, 7)
                      start_time_str == Slice(s, 7, 11)
                      end_time_str == Slice(s, 12, Len(s))
                      base_dt == strptime_Yj(year \o julian)
                  IN  IF base_dt = <<>> THEN <<<<>>, <<>>>>
                      ELSE <<replace_hm(base_dt[1], int(Slice(start_time_str, 0, 2)),
                                        int(Slice(start_time_str, 2, 4))),
                             replace_hm(base_dt[1], int(Slice(end_time_str, 0, 2)),
                                        int(Slice(end_time_str, 2, 4)))>>
             ELSE <<<<>>, <<>>>>
    IN  IF b[1] = <<>> \/ b[2] = <<>> THEN <<>>
        ELSE IF RangeRejected(b[1][1], b[2][1]) THEN <<>>
        ELSE <<b[1][1], b[2][1]>>

\* the branch of a single moment
SingleMoment(s) ==
    IF Len(s) = 11 \/ Len(s) = 12 THEN normalize_moment(s) ELSE Failure

(***************************************************************************)
(* Inputs of the parser: well-formed singletons and ranges in both         *)
(* encodings, with days, months and times on and beyond their bounds,      *)
(* and strings of other lengths.                                           *)
(***************************************************************************)
YearInputs == {2023, 2024, 2100}
RangeYearInputs == {2023, 2024}
DoyInputs == {0, 1, 59, 60, 61, 365, 366, 367}
MonthDayInputs == {<<1, 1>>, <<2, 28>>, <<2, 29>>, <<2, 30>>, <<3, 1>>,
                   <<12, 31>>, <<13, 1>>, <<1, 0>>}
TimeInputs == {<<0, 0>>, <<4, 11>>, <<4, 23>>, <<4, 26>>, <<23, 55>>,
               <<23, 59>>, <<24, 0>>, <<0, 60>>}

HHMM(t) == Fmt(t[1], 2) \o Fmt(t[2], 2)
JulianStr(y, j, t) == Fmt(y, 4) \o Fmt(j, 3) \o HHMM(t)
GregorianStr(y, md, t) == Fmt(y, 4) \o Fmt(md[1], 2) \o Fmt(md[2], 2) \o HHMM(t)

JulianSingles == {JulianStr(y, j, t) : y \in YearInputs, j \in DoyInputs, t \in TimeInputs}
GregorianSingles ==
    {GregorianStr(y, md, t) : y \in YearInputs, md \in MonthDayInputs, t \in TimeInputs}
JulianRanges ==
    {JulianStr(y, j, t) \o <<"-">> \o HHMM(u) :
        y \in RangeYearInputs, j \in DoyInputs, t \in TimeInputs, u \in TimeInputs}
GregorianRanges ==
    {GregorianStr(y, md, t) \o <<"-">> \o HHMM(u) :
        y \in RangeYearInputs, md \in MonthDayInputs, t \in TimeInputs, u \in TimeInputs}

SampleStrings ==
    {JulianStr(2024, 58, <<4, 11>>), GregorianStr(2024, <<2, 27>>, <<8, 0>>),
     JulianStr(2024, 58, <<4, 11>>) \o <<"-">> \o HHMM(<<4, 26>>),
     GregorianStr(2024, <<2, 27>>, <<8, 0>>) \o <<"-">> \o HHMM(<<14, 30>>)}

\* the samples cut or extended by up to two characters, the ranges without
\* their dash, and short strings that hold a dash
OtherLengths ==
    {Slice(x, 0, Len(x) - k) : x \in SampleStrings, k \in 1..2}
    \cup {x \o Slice(<<"0", "0">>, 0, k) : x \in SampleStrings, k \in 1..2}
    \cup {[x EXCEPT ![Len(x) - 4] = "0"] : x \in {y \in SampleStrings : Len(y) >= 16}}
    \cup {Slice(x, 0, k) : x \in {y \in SampleStrings : Len(y) >= 16}, k \in 8..13}
    \cup {<<>>, <<"-">>,
          JulianStr(2024, 58, <<0, 0>>) \o <<"-", "-", "0", "-", "0">>,
          <<"2", "0", "2", "4", "0", "5", "8", "-", "0", "-", "0", "-", "-", "0", "-", "0">>}

MomentInputs ==
    JulianSingles \cup GregorianSingles \cup JulianRanges \cup GregorianRanges
    \cup OtherLengths

InitMoment ==
    /\ pc = "args"
    /\ moment_str \in MomentInputs
    /\ outcome = Unset
    /\ current_dt = Unset /\ end_dt = Unset /\ moments = Unset
    /\ px = Unset /\ sun = Unset
    /\ valid_data_mask = Unset /\ delta = Unset /\ sza = Unset /\ tex = Unset
    /\ nhood = Unset /\ ceniza_tiempo = Unset /\ ceniza_um1 = Unset
    /\ ceniza_um2 = Unset /\ ceniza = Unset
    /\ RestUnset /\ ExtUnset

\* __main__ calls parse_moment_string when --moment is given: a single moment
\* is normalized, a range is checked and its loop set up; ValueError ends the
\* run with exit(1)
ParseMoment ==
    /\ pc = "args"
    /\ moment_str # <<>>
    /\ IF HasDash(moment_str)
       THEN LET b == RangeBounds(moment_str)
            IN  IF b = <<>>
                THEN /\ outcome' = Failure
                     /\ pc' = "exit1"
                     /\ UNCHANGED <<current_dt, end_dt, moments>>
                ELSE /\ current_dt' = b[1]
                     /\ end_dt' = b[2]
                     /\ moments' = <<>>
                     /\ pc' = "expanding"
                     /\ UNCHANGED outcome
       ELSE /\ outcome' = SingleMoment(moment_str)
            /\ pc' = IF outcome'.ok THEN "parsed" ELSE "exit1"
            /\ UNCHANGED <<current_dt, end_dt, moments>>
    /\ UNCHANGED <<moment_str, ashVars, restVars, extVars>>

\* one pass of the range loop: append the tuple of current_dt and advance
ExpandStep ==
    /\ pc = "expanding"
    /\ LoopContinues(current_dt, end_dt)
    /\ moments' = Append(moments, MomentTuple(current_dt))
    /\ current_dt' = AddMinutes(current_dt, interval_minutes)
    /\ UNCHANGED <<pc, moment_str, end_dt, outcome, ashVars, restVars, extVars>>

\* the loop is over: the list is returned
ExpandDone ==
    /\ pc = "expanding"
    /\ ~LoopContinues(current_dt, end_dt)
    /\ outcome' = Success(moments)
    /\ pc' = "parsed"
    /\ UNCHANGED <<moment_str, current_dt, end_dt, moments, ashVars, restVars, extVars>>

NextMoment ==
    \/ ParseMoment
    \/ ExpandStep
    \/ ExpandDone

SpecMoment == InitMoment /\ [][NextMoment]_vars

(***************************************************************************)
(* Properties of the parser                                                *)
(***************************************************************************)
Parsed == pc \in {"parsed", "exit1"}

Num(s, a, b) == ToInt(Slice(s, a, b))
AllDigits(s, a, b) == \A i \in (a + 1)..b : s[i] \in DigitChars
ValidTime(s, a) == Num(s, a, a + 2) <= 23 /\ Num(s, a + 2, a + 4) <= 59
MinuteOfDay(s, a) == 60 * Num(s, a, a + 2) + Num(s, a + 2, a + 4)

\* the month and day of the j-th day of year y, by the lengths of the months
DateOfYday(y, j) ==
    CHOOSE md \in (1..12) \X (1..31) :
        /\ md[2] <= DaysInMonth(y, md[1])
        /\ DaysBeforeMonth(y, md[1]) + md[2] = j

\* YYYYjjjHHMM naming an existing day and time
WellFormedJulian(s) ==
    /\ Len(s) = 11 /\ AllDigits(s, 0, 11)
    /\ Num(s, 0, 4) >= 1
    /\ Num(s, 4, 7) >= 1 /\ Num(s, 4, 7) <= DaysInYear(Num(s, 0, 4))
    /\ ValidTime(s, 7)

\* YYYYMMDDHHMM naming an existing day and time
WellFormedGregorian(s) ==
    /\ Len(s) = 12 /\ AllDigits(s, 0, 12)
    /\ Num(s, 0, 4) >= 1
    /\ Num(s, 4, 6) \in 1..12
    /\ Num(s, 6, 8) >= 1 /\ Num(s, 6, 8) <= DaysInMonth(Num(s, 0, 4), Num(s, 4, 6))
    /\ ValidTime(s, 8)

\* a well-formed moment, a dash and a well-formed end time
WellFormedRange(s) ==
    \/ /\ Len(s) = 16 /\ s[12] = "-" /\ WellFormedJulian(Slice(s, 0, 11))
       /\ AllDigits(s, 12, 16) /\ ValidTime(s, 12)
    \/ /\ Len(s) = 17 /\ s[13] = "-" /\ WellFormedGregorian(Slice(s, 0, 12))
       /\ AllDigits(s, 13, 17) /\ ValidTime(s, 13)

RangeStart(s) == MinuteOfDay(s, Len(s) - 9)
RangeEnd(s) == MinuteOfDay(s, Len(s) - 4)

\* year, month, day and day of the year of the day of a well-formed range
RangeDate(s) ==
    LET y == Num(s, 0, 4)
    IN  IF Len(s) = 16
        THEN LET md == DateOfYday(y, Num(s, 4, 7))
             IN  [year |-> y, month |-> md[1], day |-> md[2], yday |-> Num(s, 4, 7)]
        ELSE [year |-> y, month |-> Num(s, 4, 6), day |-> Num(s, 6, 8),
              yday |-> DaysBeforeMonth(y, Num(s, 4, 6)) + Num(s, 6, 8)]

\* the tuple of minute t of the day of the range
ExpectedMoment(s, t) ==
    LET d == RangeDate(s)
    IN  <<Fmt(d.year, 4) \o Fmt(d.yday, 3) \o Fmt(t \div 60, 2) \o Fmt(t % 60, 2),
          Fmt(d.year, 4), Fmt(d.month, 2), Fmt(d.day, 2)>>

OrderedRange(s) == WellFormedRange(s) /\ RangeStart(s) <= RangeEnd(s)

\* C8 as stated: a range with start <= end expands to start, start+5min, ...
\* with the start first and the end last, (end - start)/5min + 1 moments, each
\* carrying the date of the day of the range.
RangeReachesEnd ==
    (Parsed /\ OrderedRange(moment_str)) =>
        /\ outcome.ok
        /\ Len(outcome.moments) = (RangeEnd(moment_str) - RangeStart(moment_str)) \div 5 + 1
        /\ \A i \in 1..Len(outcome.moments) :
              outcome.moments[i] =
                  ExpectedMoment(moment_str, RangeStart(moment_str) + 5 * (i - 1))
        /\ outcome.moments[Len(outcome.moments)] =
              ExpectedMoment(moment_str, RangeEnd(moment_str))

\* C8 amended: a range with start <= end expands to start, start+5min, ... in
\* ascending order up to the last stride that is not after the end: the first
\* moment is the start, there are floor((end - start)/5min) + 1 moments, each
\* carrying the date of the day of the range, and the last moment is the end
\* exactly when end - start is a multiple of 5 minutes.
RangeExpansion ==
    (Parsed /\ OrderedRange(moment_str)) =>
        /\ outcome.ok
        /\ Len(outcome.moments) = (RangeEnd(moment_str) - RangeStart(moment_str)) \div 5 + 1
        /\ \A i \in 1..Len(outcome.moments) :
              outcome.moments[i] =
                  ExpectedMoment(moment_str, RangeStart(moment_str) + 5 * (i - 1))
        /\ (outcome.moments[Len(outcome.moments)] =
                ExpectedMoment(moment_str, RangeEnd(moment_str)))
              <=> ((RangeEnd(moment_str) - RangeStart(moment_str)) % 5 = 0)

\* C8 witness: the Julian range of 29 February 2024 from 04:11 to 04:26 has
\* been expanded to four moments, the last one being the end.
RangeWitness ==
    /\ pc = "parsed"
    /\ moment_str = JulianStr(2024, 60, <<4, 11>>) \o <<"-">> \o HHMM(<<4, 26>>)
    /\ Len(outcome.moments) = 4
    /\ outcome.moments[4] = <<JulianStr(2024, 60, <<4, 26>>), Fmt(2024, 4),
                              Fmt(2, 2), Fmt(29, 2)>>

\* C9: well-formed singletons of 11 and 12 characters and ranges of 16 and 17
\* characters are accepted; a string of any other length fails; a range whose
\* start is after its end fails; a range with start = end gives one moment.
ParseAcceptance ==
    Parsed =>
        /\ Len(moment_str) \notin {11, 12, 16, 17} => ~outcome.ok
        /\ (WellFormedJulian(moment_str) \/ WellFormedGregorian(moment_str))
              => outcome.ok /\ Len(outcome.moments) = 1
        /\ OrderedRange(moment_str) => outcome.ok
        /\ (WellFormedRange(moment_str) /\ RangeStart(moment_str) > RangeEnd(moment_str))
              => ~outcome.ok
        /\ (WellFormedRange(moment_str) /\ RangeStart(moment_str) = RangeEnd(moment_str))
              => outcome.ok /\ Len(outcome.moments) = 1
        /\ ~outcome.ok <=> pc = "exit1"

\* C9 witness: a Gregorian range with start = end has given one moment.
ParseAcceptanceWitness ==
    /\ pc = "parsed"
    /\ Len(moment_str) = 17 /\ WellFormedRange(moment_str)
    /\ RangeStart(moment_str) = RangeEnd(moment_str)
    /\ Len(outcome.moments) = 1

\* C10: a well-formed Julian string is returned unchanged with the year, month
\* and day of its day of the year; a well-formed Gregorian string gives the
\* Julian string of the same year and HHMM whose day of the year is that date,
\* with the same year, month and day, and that Julian string parses to the
\* same result.
NormalizeAgrees ==
    Parsed =>
        /\ WellFormedJulian(moment_str) =>
              /\ outcome.ok
              /\ LET md == DateOfYday(Num(moment_str, 0, 4), Num(moment_str, 4, 7))
                 IN  outcome.moments =
                        << <<moment_str, Slice(moment_str, 0, 4),
                             Fmt(md[1], 2), Fmt(md[2], 2)>> >>
        /\ WellFormedGregorian(moment_str) =>
              /\ outcome.ok
              /\ Len(outcome.moments) = 1
              /\ LET r == outcome.moments[1]
                 IN  /\ Len(r[1]) = 11 /\ AllDigits(r[1], 0, 11)
                     /\ Slice(r[1], 0, 4) = Slice(moment_str, 0, 4)
                     /\ Slice(r[1], 7, 11) = Slice(moment_str, 8, 12)
                     /\ Num(r[1], 4, 7) =
                           DaysBeforeMonth(Num(moment_str, 0, 4), Num(moment_str, 4, 6))
                               + Num(moment_str, 6, 8)
                     /\ r[2] = Slice(moment_str, 0, 4)
                     /\ r[3] = Slice(moment_str, 4, 6)
                     /\ r[4] = Slice(moment_str, 6, 8)
                     /\ normalize_moment(r[1]) = Success(<<r>>)

\* C10 witness: 29 February 2024 04:11 in Gregorian form has been normalized
\* to day 060.
NormalizeWitness ==
    /\ pc = "parsed"
    /\ moment_str = GregorianStr(2024, <<2, 29>>, <<4, 11>>)
    /\ outcome.moments = << <<JulianStr(2024, 60, <<4, 11>>), Fmt(2024, 4),
                              Fmt(2, 2), Fmt(29, 2)>> >>

(***************************************************************************)
(* group_and_report_failures                                               *)
(***************************************************************************)
\* longest list of failed moments handed to the report
MaxFailed == 4

\* strptime(s, "%Y%j%H%M"), s of 11 digits; <<>> stands for ValueError
strptime_YjHM(s) ==
    LET date == strptime_Yj(Slice(s, 0, 7))
        hh == ToInt(Slice(s, 7, 9))
        mm == ToInt(Slice(s, 9, 11))
    IN  IF Len(s) = 11 /\ IsDigits(s) /\ date # <<>> /\ hh <= 23 /\ mm <= 59
        THEN <<[date[1] EXCEPT !.hour = hh, !.minute = mm]>>
        ELSE <<>>

\* date.toordinal(): the days before the year plus the day of the year
toordinal(dt) ==
    LET y == dt.year - 1
    IN  365 * y + (y \div 4) - (y \div 100) + (y \div 400)
        + tm_yday(dt.year, dt.month, dt.day)

\* curr_dt - prev_dt, in minutes
MinutesBetween(prev_dt, curr_dt) ==
    (toordinal(curr_dt) - toordinal(prev_dt)) * 1440
    + (curr_dt.hour * 60 + curr_dt.minute)
    - (prev_dt.hour * 60 + prev_dt.minute)

\* the order of str on strings of digits
RECURSIVE StrLess(_, _)
StrLess(a, b) ==
    IF b = <<>> THEN FALSE
    ELSE IF a = <<>> THEN TRUE
    ELSE \/ DigitVal(a[1]) < DigitVal(b[1])
         \/ a[1] = b[1] /\ StrLess(Tail(a), Tail(b))

RECURSIVE Insert(_, _)
Insert(x, s) ==
    IF s = <<>> THEN <<x>>
    ELSE IF StrLess(x, s[1]) THEN <<x>> \o s
    ELSE <<s[1]>> \o Insert(x, Tail(s))

\* list.sort()
RECURSIVE sort(_)
sort(s) ==
    IF s = <<>> THEN <<>>
    ELSE Insert(s[Len(s)], sort(SubSeq(s, 1, Len(s) - 1)))

\* variant: a gap of exactly the interval already closes the group
NotConsecutiveFrom(prev, curr) ==
    MinutesBetween(strptime_YjHM(prev)[1], strptime_YjHM(curr)[1])
        >= interval_minutes

\* (curr_dt - prev_dt) > timedelta(minutes=interval_minutes)
NotConsecutive(prev, curr) ==
    MinutesBetween(strptime_YjHM(prev)[1], strptime_YjHM(curr)[1])
        > interval_minutes

\* the loop over i in range(1, len(failed_moments)) and the append after it;
\* fm[i] is failed_moments[i-1] and fm[i + 1] is failed_moments[i]
RECURSIVE GroupLoop(_, _, _, _)
GroupLoop(fm, i, start_of_group, gs) ==
    IF i >= Len(fm) THEN Append(gs, <<start_of_group, fm[Len(fm)]>>)
    ELSE IF NotConsecutive(fm[i], fm[i + 1])
    THEN GroupLoop(fm, i + 1, fm[i + 1], Append(gs, <<start_of_group, fm[i]>>))
    ELSE GroupLoop(fm, i + 1, start_of_group, gs)

\* the list as sorted in place and the groups printed (none for no failure)
group_and_report_failures(fm) ==
    IF fm = <<>> THEN [failed_moments |-> fm, groups |-> <<>>]
    ELSE LET s == sort(fm)
         IN  [failed_moments |-> s, groups |-> GroupLoop(s, 1, s[1], <<>>)]

FailedPool ==
    {JulianStr(2023, 365, <<23, 50>>), JulianStr(2023, 365, <<23, 55>>),
     JulianStr(2024, 1, <<0, 0>>), JulianStr(2024, 1, <<0, 5>>),
     JulianStr(2024, 1, <<0, 15>>), JulianStr(2024, 1, <<0, 21>>),
     JulianStr(2024, 1, <<0, 26>>)}

\* lists of distinct moments, in any order
FailedLists ==
    {f \in UNION {[1..n -> FailedPool] : n \in 0..MaxFailed} :
        \A i, j \in DOMAIN f : i # j => f[i] # f[j]}

InitReport ==
    /\ pc = "failures"
    /\ failed_moments \in FailedLists
    /\ groups = Unset
    /\ px = Unset /\ sun = Unset
    /\ valid_data_mask = Unset /\ delta = Unset /\ sza = Unset /\ tex = Unset
    /\ nhood = Unset /\ ceniza_tiempo = Unset /\ ceniza_um1 = Unset
    /\ ceniza_um2 = Unset /\ ceniza = Unset /\ RestUnset
    /\ moment_str = Unset /\ outcome = Unset
    /\ current_dt = Unset /\ end_dt = Unset /\ moments = Unset
    /\ ResolverUnset /\ RunUnset

Report ==
    /\ pc = "failures"
    /\ LET r == group_and_report_failures(failed_moments)
       IN  /\ failed_moments' = r.failed_moments
           /\ groups' = r.groups
    /\ pc' = "reported"
    /\ UNCHANGED <<ashVars, momentVars, restVars, resolverVars, runVars>>

NextReport == Report

SpecReport == InitReport /\ [][NextReport]_vars

(***************************************************************************)
(* C11: the report of failed moments                                       *)
(***************************************************************************)
Reported == pc = "reported"

\* minutes since the start of 2023, for moments of 2023 and 2024
MomentMinute(s) ==
    (IF Num(s, 0, 4) = 2024 THEN 365 * 1440 ELSE 0)
    + (Num(s, 4, 7) - 1) * 1440 + MinuteOfDay(s, 7)

\* the places of the sorted list where the gap to the one before exceeds 5
Breaks(S) ==
    {k \in 2..Len(S) : MomentMinute(S[k]) - MomentMinute(S[k - 1]) > 5}

\* the last place of the run that begins at place k
RunEnd(S, k) ==
    CHOOSE j \in k..Len(S) :
        /\ j = Len(S) \/ j + 1 \in Breaks(S)
        /\ \A i \in (k + 1)..j : i \notin Breaks(S)

InGroup(g, m) ==
    MomentMinute(g[1]) <= MomentMinute(m) /\ MomentMinute(m) <= MomentMinute(g[2])

\* C11: the reported intervals are exactly the maximal runs of the sorted
\* failed moments whose successive gaps are at most 5 minutes: the list is
\* sorted, there is one interval per run, in order, from the first to the
\* last moment of the run, and every failed moment lies in exactly one
\* interval; no failure gives no interval.
GroupsAreMaximalRuns ==
    Reported =>
        LET S == failed_moments
            Starts == (IF S = <<>> THEN {} ELSE {1}) \cup Breaks(S)
        IN  /\ \A k \in 2..Len(S) : MomentMinute(S[k - 1]) < MomentMinute(S[k])
            /\ Len(groups) = Cardinality(Starts)
            /\ {groups[i] : i \in 1..Len(groups)}
                   = {<<S[k], S[RunEnd(S, k)]>> : k \in Starts}
            /\ \A i \in 2..Len(groups) :
                   MomentMinute(groups[i - 1][2]) < MomentMinute(groups[i][1])
            /\ \A k \in 1..Len(S) :
                   Cardinality({i \in 1..Len(groups) : InGroup(groups[i], S[k])}) = 1

\* two runs, the first one across the turn of the year, from four failures
GroupsWitness ==
    /\ Reported
    /\ groups = << <<JulianStr(2023, 365, <<23, 55>>), JulianStr(2024, 1, <<0, 5>>)>>,
                   <<JulianStr(2024, 1, <<0, 15>>), JulianStr(2024, 1, <<0, 15>>)>> >>

(***************************************************************************)
(* get_filelist_from_path                                                  *)
(*                                                                         *)
(* A file name is a sequence of characters, a path a sequence of names,    *)
(* and the file system a function from the directories that exist to the   *)
(* names they list, in the order the listing returns them.                 *)
(***************************************************************************)
Letters ==
    {"A", "B", "C", "D", "E", "F", "G", "H", "I", "J", "K", "L", "M",
     "N", "O", "P", "Q", "R", "S", "T", "U", "V", "W", "X", "Y", "Z"}
    \cup
    {"a", "b", "c", "d", "e", "f", "g", "h", "i", "j", "k", "l", "m",
     "n", "o", "p", "q", "r", "s", "t", "u", "v", "w", "x", "y", "z"}

\* [A-Za-z0-9] and \w of the regular expressions
IsAlnum(c) == c \in Letters \cup DigitChars
IsWord(c) == IsAlnum(c) \/ c = "_"

\* sub in s, and the places (0-based) where sub occurs
Occurrences(sub, s) ==
    {i \in 0..(Len(s) - Len(sub)) : \A j \in 1..Len(sub) : s[i + j] = sub[j]}
Contains(sub, s) == Occurrences(sub, s) # {}
startswith(s, prefix) ==
    Len(s) >= Len(prefix) /\ \A j \in 1..Len(prefix) : s[j] = prefix[j]
endswith(s, suffix) ==
    /\ Len(s) >= Len(suffix)
    /\ \A j \in 1..Len(suffix) : s[Len(s) - Len(suffix) + j] = suffix[j]

\* search_path.glob(f"*s{moment_julian}*.nc") on one name
GlobMatches(moment_julian, name) ==
    LET key == <<"s">> \o moment_julian
    IN  /\ endswith(name, <<".", "n", "c">>)
        /\ \E i \in Occurrences(key, name) : i + Len(key) + 3 <= Len(name)

\* re.search(rf"M\d+C{band_code[1:]}\b", p_name), given the places occ
\* where band_code occurs: an M and one or more digits before the code,
\* and after it the end of the name or a character that is not of a word
SearchModeBand(band_code, name, occ) ==
    \E i \in occ :
        /\ i + Len(band_code) = Len(name) \/ ~IsWord(name[i + Len(band_code) + 1])
        /\ \E k \in 1..(i - 1) :
               /\ name[i - k] = "M"
               /\ \A d \in (i - k + 1)..i : name[d] \in DigitChars

\* re.search(rf"[^A-Za-z0-9]{band_code}[^A-Za-z0-9]", p_name), given the
\* places occ where band_code occurs
SearchDelimitedBand(band_code, name, occ) ==
    \E i \in occ :
        /\ i >= 1 /\ ~IsAlnum(name[i])
        /\ i + Len(band_code) < Len(name)
        /\ ~IsAlnum(name[i + Len(band_code) + 1])

ACTP == <<"A", "C", "T", "P">>
Band(n) == <<"C">> \o Fmt(n, 2)

\* productos_requeridos, in the order of the list
productos == <<ACTP, Band(4), Band(7), Band(11), Band(13), Band(14), Band(15)>>

\* the test of one product on one name (lines 292-315)
MatchesProduct(prod, p_name) ==
    IF startswith(prod, <<"C">>)
    THEN \E occ \in {Occurrences(prod, p_name)} :
            \/ SearchModeBand(prod, p_name, occ)
            \/ SearchDelimitedBand(prod, p_name, occ)
            \/ occ # {}
    ELSE IF prod = ACTP
    THEN \/ Contains(ACTP \o <<"C", "-">>, p_name)
         \/ Contains(<<"-">> \o ACTP \o <<"_">>, p_name)
         \/ Contains(<<"-">> \o ACTP \o <<"C", "-">>, p_name)
         \/ Contains(ACTP, p_name)
    ELSE \/ Contains(<<"-">> \o prod \o <<"_">>, p_name)
         \/ Contains(<<"-">> \o prod \o <<"-">>, p_name)
         \/ Contains(prod, p_name)

\* the product a name is appended to: the first of the list that matches
\* (the break), 0 when none does
RECURSIVE ProductOf(_, _, _)
ProductOf(products, p_name, k) ==
    IF k > Len(products) THEN 0
    ELSE IF MatchesProduct(products[k], p_name) THEN k
    ELSE ProductOf(products, p_name, k + 1)

\* the loop of lines 286-315: each name is appended to the list of its
\* product; por_producto is archivos_por_producto as a sequence along products
RECURSIVE CollectLoop(_, _, _, _)
CollectLoop(archivos_por_tiempo, products, i, por_producto) ==
    IF i > Len(archivos_por_tiempo) THEN por_producto
    ELSE LET k == ProductOf(products, archivos_por_tiempo[i], 1)
         IN  CollectLoop(archivos_por_tiempo, products, i + 1,
                 IF k = 0 THEN por_producto
                 ELSE [por_producto EXCEPT ![k] = Append(@, archivos_por_tiempo[i])])

Collect(archivos_por_tiempo, products) ==
    CollectLoop(archivos_por_tiempo, products, 1,
                [k \in 1..Len(products) |-> <<>>])

IsCG(p) == startswith(p, <<"C", "G", "_">>)

\* variant: the first candidate, whatever its provider
SelectFirst(candidatos) == candidatos[1]

\* the file taken among one or more candidates (lines 324-335)
SelectCandidate(candidatos) ==
    IF Len(candidatos) = 1 THEN candidatos[1]
    ELSE LET cg_files == SelectSeq(candidatos, IsCG)
         IN  IF cg_files # <<>> THEN cg_files[1] ELSE candidatos[1]

\* str(Path(dir) / name)
JoinPath(dir, name) ==
    (IF endswith(dir, <<"/">>) THEN Slice(dir, 0, Len(dir) - 1) ELSE dir)
    \o <<"/">> \o name

\* str(path) of a path of the file system
RECURSIVE PathStr(_)
PathStr(path) ==
    IF Len(path) = 1 THEN path[1]
    ELSE JoinPath(PathStr(SubSeq(path, 1, Len(path) - 1)), path[Len(path)])

\* lista_archivos: str(path) of one file per product that has candidates
RECURSIVE Resolve(_, _, _)
Resolve(search_path, por_producto, k) ==
    IF k > Len(por_producto) THEN <<>>
    ELSE (IF por_producto[k] = <<>> THEN <<>>
          ELSE <<JoinPath(search_path, SelectCandidate(por_producto[k]))>>)
         \o Resolve(search_path, por_producto, k + 1)

\* variant: the search stays in the root whatever --date-tree says
SearchPathRoot(data_path, info, date_tree) == data_path

SearchPath(data_path, info, date_tree) ==
    IF date_tree THEN data_path \o <<info[2], info[3], info[4]>> ELSE data_path

\* the directories that exist are the domain of the file system
is_dir(fs, path) == path \in DOMAIN fs

TimeMatches(fs, info, search_path) ==
    SelectSeq(fs[search_path], LAMBDA p : GlobMatches(info[1], p))

\* the whole function: the candidates collected and the list returned
get_filelist_from_path(fs, data_path, info, products, date_tree) ==
    LET search_path == SearchPath(data_path, info, date_tree)
    IN  IF ~is_dir(fs, search_path)
        THEN [archivos_por_producto |-> Unset, lista_archivos |-> <<>>]
        ELSE LET cands == Collect(TimeMatches(fs, info, search_path), products)
             IN  [archivos_por_producto |-> cands,
                  lista_archivos |-> Resolve(PathStr(search_path), cands, 1)]

\* longest directory listing handed to the resolver on its own
MaxListing == 3

L2Prefix == <<"A", "B", "I", "-", "L", "2", "-">>
\* the start stamp of a name: the moment and the seconds, then the extension
Stamp(m, ext) == <<"_", "G", "1", "6", "_", "s">> \o m \o <<"1", "3", "3">> \o ext
NC == <<".", "n", "c">>
OR == <<"O", "R", "_">>
CG == <<"C", "G", "_">>

\* OR_ABI-L2-CMIPC-M6C07_G16_s20230010411133.nc and the like
BandFile(provider, mode, n, m) ==
    provider \o L2Prefix \o <<"C", "M", "I", "P", "C", "-", "M">> \o Fmt(mode, 1) \o Band(n) \o Stamp(m, NC)
PhaseFile(provider, m) ==
    provider \o L2Prefix \o <<"A", "C", "T", "P", "C", "-", "M", "6">> \o Stamp(m, NC)
\* C07 between two letters
EmbeddedFile(m) == OR \o L2Prefix \o <<"X", "C", "0", "7", "Y">> \o Stamp(m, NC)
\* -C07_
DelimitedFile(m) == OR \o L2Prefix \o <<"C", "M", "I", "P", "-", "C", "0", "7">> \o Stamp(m, NC)
\* M3C07 followed by a dot
ModeDotFile(m) == OR \o <<"M", "3", "C", "0", "7", ".", "x">> \o Stamp(m, NC)
TextFile(m) == OR \o L2Prefix \o <<"C", "M", "I", "P", "C", "-", "M", "6", "C", "0", "7">> \o Stamp(m, <<".", "t", "x", "t">>)

ResolverMoment == MomentTuple(Dt(2023, 1, 1, 4, 11))
OtherMoment == MomentTuple(Dt(2023, 1, 1, 4, 16))

NamePool ==
    LET m == ResolverMoment[1]
    IN  {BandFile(OR, 6, 7, m), BandFile(CG, 6, 7, m), BandFile(CG, 3, 7, m),
         BandFile(OR, 6, 4, m), PhaseFile(OR, m), PhaseFile(CG, m),
         EmbeddedFile(m), DelimitedFile(m), ModeDotFile(m), TextFile(m),
         BandFile(OR, 6, 7, OtherMoment[1])}

Listings ==
    {f \in UNION {[1..n -> NamePool] : n \in 0..MaxListing} :
        \A i, j \in DOMAIN f : i # j => f[i] # f[j]}

l2_path == << <<"l", "2">> >>

\* the listing in the root, in the directory of the day, or nowhere
FileSystems(info) ==
    {(l2_path :> l) : l \in Listings}
    \cup {(l2_path :> <<>>) @@ (SearchPath(l2_path, info, TRUE) :> l) : l \in Listings}
    \cup {<<>>}

InitResolver ==
    /\ pc = "resolve"
    /\ moment_info = ResolverMoment
    /\ use_date_tree \in BOOLEAN
    /\ files \in FileSystems(moment_info)
    /\ archivos_por_producto = Unset /\ lista_archivos = Unset
    /\ px = Unset /\ sun = Unset
    /\ valid_data_mask = Unset /\ delta = Unset /\ sza = Unset /\ tex = Unset
    /\ nhood = Unset /\ ceniza_tiempo = Unset /\ ceniza_um1 = Unset
    /\ ceniza_um2 = Unset /\ ceniza = Unset /\ RestUnset
    /\ moment_str = Unset /\ outcome = Unset
    /\ current_dt = Unset /\ end_dt = Unset /\ moments = Unset
    /\ ReportUnset /\ RunUnset

ResolveFiles ==
    /\ pc = "resolve"
    /\ LET r == get_filelist_from_path(files, l2_path, moment_info, productos,
                                       use_date_tree)
       IN  /\ archivos_por_producto' = r.archivos_por_producto
           /\ lista_archivos' = r.lista_archivos
    /\ pc' = "resolved"
    /\ UNCHANGED <<files, moment_info, use_date_tree, ashVars, momentVars, restVars,
                   reportVars, runVars>>

NextResolver == ResolveFiles

SpecResolver == InitResolver /\ [][NextResolver]_vars

(***************************************************************************)
(* C12, C13: the resolver on one directory listing                         *)
(***************************************************************************)
Resolved == pc = "resolved" /\ archivos_por_producto # Unset

\* the name returned for product k: the last part of the path at the place
\* of k among the products that have candidates
SelectedFor(k) ==
    LET rank == Cardinality({j \in 1..k : archivos_por_producto[j] # <<>>})
        path == lista_archivos[rank]
    IN  CHOOSE n \in NamePool :
            path = PathStr(SearchPath(l2_path, moment_info, use_date_tree))
                       \o <<"/">> \o n

NameStartsCG(p) == Len(p) >= 3 /\ p[1] = "C" /\ p[2] = "G" /\ p[3] = "_"

\* C12: for every product with candidates the name returned is one of its
\* candidates; it starts with CG_ whenever a candidate does, wherever that
\* candidate stands in the listing, and it is the first candidate when none
\* starts with CG_.
PrefersCG ==
    Resolved =>
        \A k \in 1..Len(productos) :
            LET c == archivos_por_producto[k]
                someCG == \E i \in 1..Len(c) : NameStartsCG(c[i])
            IN  c # <<>> =>
                    /\ \E i \in 1..Len(c) : c[i] = SelectedFor(k)
                    /\ someCG => NameStartsCG(SelectedFor(k))
                    /\ ~someCG => SelectedFor(k) = c[1]

\* C07 has the OR_ file listed before the CG_ one and the CG_ one is returned
PrefersCGWitness ==
    /\ Resolved
    /\ archivos_por_producto[3] =
           <<BandFile(OR, 6, 7, ResolverMoment[1]), BandFile(CG, 6, 7, ResolverMoment[1])>>
    /\ SelectedFor(3) = BandFile(CG, 6, 7, ResolverMoment[1])

\* the band code occurs in the name next to a character that is not
\* alphanumeric, or at an end of the name
AtBoundary(band_code, p) ==
    \E i \in 1..(Len(p) - Len(band_code) + 1) :
        /\ SubSeq(p, i, i + Len(band_code) - 1) = band_code
        /\ \/ i = 1
           \/ ~IsAlnum(p[i - 1])
           \/ i + Len(band_code) > Len(p)
           \/ ~IsAlnum(p[i + Len(band_code)])

\* C13: every name collected for a band product holds the band code next
\* to a non-alphanumeric boundary.
BandMatchedAtBoundary ==
    Resolved =>
        \A k \in 2..Len(productos) :
            \A i \in 1..Len(archivos_por_producto[k]) :
                AtBoundary(productos[k], archivos_por_producto[k][i])

(***************************************************************************)
(* __main__: the run over a range of moments                               *)
(***************************************************************************)
\* variant: the date kept when the hour goes back from 0 to 23
SameDay(dt) == dt

PrevDay(dt) ==
    IF dt.day > 1 THEN [dt EXCEPT !.day = dt.day - 1]
    ELSE IF dt.month > 1
    THEN [dt EXCEPT !.month = dt.month - 1,
                    !.day = DaysInMonth(dt.year, dt.month - 1)]
    ELSE [dt EXCEPT !.year = dt.year - 1, !.month = 12, !.day = 31]

\* get_moment: the most recent scan minute as a string "YYYYjjjhhmm"
get_moment(ahora_utc, is_conus) ==
    LET minuto_actual == ahora_utc.minute
        base == (minuto_actual \div 5) * 5
        back == base % 10 = 0 /\ minuto_actual < base + 1 /\ base < 4
        minuto_redondeado ==
            IF ~is_conus THEN (minuto_actual \div 10) * 10
            ELSE IF minuto_actual >= base + 1 THEN base + 1
            ELSE IF base % 10 = 0 THEN (IF base >= 4 THEN base - 4 ELSE 56)
            ELSE base - 4
        hour_back ==
            [ahora_utc EXCEPT !.hour = IF ahora_utc.hour > 0
                                       THEN ahora_utc.hour - 1 ELSE 23]
        adjusted ==
            IF is_conus /\ back
            THEN (IF hour_back.hour = 23 THEN PrevDay(hour_back) ELSE hour_back)
            ELSE ahora_utc
    IN  MomentTuple([adjusted EXCEPT !.minute = minuto_redondeado])[1]

\* the forms of --output: the string given, and what it names on disk
None == <<"None">>
OutputForms ==
    {[outp |-> None, kind |-> "none"],
     [outp |-> <<"o", "u", "t", "/">>, kind |-> "none"],
     [outp |-> <<"o", "u", "t">>, kind |-> "none"],
     [outp |-> <<"o", "u", "t", ".", "t", "i", "f">>, kind |-> "none"],
     [outp |-> <<"o", "u", "t", ".", "p", "n", "g">>, kind |-> "none"],
     [outp |-> <<"o", "u", "t", ".", "d", "a", "t">>, kind |-> "file"],
     [outp |-> <<"r", "e", "s", ".", "t", "i", "f">>, kind |-> "dir"]}

\* the arguments and the environment of a run; a dry run and a failing
\* environment are taken with the plain arguments only
RunConfigs ==
    {c \in [out : OutputForms, png : BOOLEAN, dry_run : BOOLEAN, clip_geo : BOOLEAN,
            ephemeris : BOOLEAN, mkdir : BOOLEAN] :
        /\ (c.dry_run \/ c.ephemeris \/ c.mkdir) => ~c.png /\ ~c.clip_geo
        /\ c.clip_geo => c.out.kind = "none" /\ Len(c.out.outp) # 3
        /\ (c.dry_run \/ c.ephemeris) => c.out.outp = None /\ ~c.mkdir
        /\ c.dry_run => ~c.ephemeris
        /\ c.mkdir => c.out.outp # None /\ c.out.kind # "file"}

RunMoments ==
    {<<>>,
     JulianStr(2023, 1, <<4, 11>>),
     JulianStr(2023, 1, <<4, 11>>) \o <<"-">> \o HHMM(<<4, 21>>),
     JulianStr(2023, 1, <<4, 11>>) \o <<"-">> \o HHMM(<<4, 23>>),
     GregorianStr(2023, <<1, 1>>, <<4, 11>>) \o <<"-">> \o HHMM(<<4, 16>>),
     Slice(JulianStr(2023, 1, <<4, 11>>), 0, 10),
     JulianStr(2023, 1, <<4, 21>>) \o <<"-">> \o HHMM(<<4, 11>>)}

\* the three moments a run can meet
Scan(k) == MomentTuple(Dt(2023, 1, 1, 4, 6 + 5 * k))

\* the files of one moment in the listing
SevenFiles(m) ==
    <<PhaseFile(OR, m), BandFile(OR, 6, 4, m), BandFile(OR, 6, 7, m),
      BandFile(OR, 6, 11, m), BandFile(OR, 6, 13, m), BandFile(OR, 6, 14, m),
      BandFile(OR, 6, 15, m)>>
FilesOfKind(kind, m) ==
    IF kind = "full" THEN SevenFiles(m)
    ELSE IF kind = "cg" THEN SevenFiles(m) \o <<BandFile(CG, 6, 7, m)>>
    ELSE IF kind = "missing" THEN SubSeq(SevenFiles(m), 1, 4) \o SubSeq(SevenFiles(m), 6, 7)
    ELSE IF kind = "embedded"
    THEN SubSeq(SevenFiles(m), 1, 2) \o <<EmbeddedFile(m)>> \o SubSeq(SevenFiles(m), 4, 7)
    ELSE <<>>
Coverages ==
    {<<"full", "full", "full">>, <<"full", "missing", "full">>,
     <<"missing", "cg", "none">>, <<"none", "none", "none">>,
     <<"cg", "embedded", "full">>}
TreeCoverages == {<<"full", "full", "full">>, <<"missing", "cg", "none">>}
DayListing(cov) ==
    FilesOfKind(cov[1], Scan(1)[1]) \o FilesOfKind(cov[2], Scan(2)[1])
    \o FilesOfKind(cov[3], Scan(3)[1])

\* --date-tree and the directories: the listing where the run looks for it,
\* the directory of the day missing, or no directory at all
RunFileSystems ==
    {[date_tree |-> FALSE, fs |-> (l2_path :> DayListing(cov))] : cov \in Coverages}
    \cup {[date_tree |-> TRUE,
           fs |-> (l2_path :> <<>>) @@ (SearchPath(l2_path, Scan(1), TRUE) :> DayListing(cov))] :
              cov \in TreeCoverages}
    \cup {[date_tree |-> TRUE, fs |-> (l2_path :> DayListing(cov))] : cov \in TreeCoverages}
    \cup {[date_tree |-> FALSE, fs |-> <<>>]}

\* every configuration on the main listings, and every file system under
\* the main configurations
MainFileSystems ==
    {f \in RunFileSystems :
        /\ ~f.date_tree /\ f.fs # <<>>
        /\ f.fs[l2_path] \in {DayListing(<<"full", "full", "full">>),
                              DayListing(<<"full", "missing", "full">>),
                              DayListing(<<"cg", "embedded", "full">>)}}
MainConfigs ==
    {c \in RunConfigs :
        /\ ~c.clip_geo /\ ~c.ephemeris /\ ~c.mkdir
        /\ \/ c.out.outp = None /\ ~c.png
           \/ c.out.outp = <<"o", "u", "t", "/">> /\ c.png}
RunSetups ==
    (RunConfigs \X MainFileSystems) \cup (MainConfigs \X RunFileSystems)

Clocks == {Dt(2023, 1, 1, 4, 13), Dt(2023, 1, 1, 0, 0)}

InitRun ==
    /\ pc = "args"
    /\ moment_str \in RunMoments
    /\ now \in (IF moment_str = <<>> THEN Clocks ELSE {Dt(2023, 1, 1, 4, 13)})
    /\ \E setup \in RunSetups :
          LET c == setup[1]
              f == setup[2]
          IN
          /\ args = [output |-> c.out.outp, png |-> c.png, dry_run |-> c.dry_run,
                     clip_geo |-> c.clip_geo]
          /\ output_kind = c.out.kind
          /\ faults = [ephemeris |-> c.ephemeris, mkdir |-> c.mkdir]
          /\ files = f.fs /\ use_date_tree = f.date_tree
    /\ moment_list = Unset /\ momentos_validos = Unset
    /\ momentos_fallidos = Unset /\ i_moment = Unset
    /\ attempted = <<>> /\ written = <<>> /\ uncaught = "none"
    /\ moment_info = Unset /\ archivos_por_producto = Unset
    /\ lista_archivos = Unset
    /\ outcome = Unset /\ current_dt = Unset /\ end_dt = Unset /\ moments = Unset
    /\ px = Unset /\ sun = Unset
    /\ valid_data_mask = Unset /\ delta = Unset /\ sza = Unset /\ tex = Unset
    /\ nhood = Unset /\ ceniza_tiempo = Unset /\ ceniza_um1 = Unset
    /\ ceniza_um2 = Unset /\ ceniza = Unset /\ RestUnset
    /\ ReportUnset

\* without --moment the list holds the string get_moment returns (line 1198)
DefaultMoment ==
    /\ pc = "args"
    /\ moment_str = <<>>
    /\ moment_list' = <<get_moment(now, TRUE)>>
    /\ momentos_validos' = <<>>
    /\ momentos_fallidos' = <<>>
    /\ i_moment' = 1
    /\ pc' = "preflight"
    /\ UNCHANGED <<args, now, faults, output_kind, attempted, written, uncaught,
                   ashVars, momentVars, restVars, reportVars, resolverVars>>

\* the list parse_moment_string returned is the list to check (line 1192)
BeginPreflight ==
    /\ pc = "parsed"
    /\ moment_list' = outcome.moments
    /\ momentos_validos' = <<>>
    /\ momentos_fallidos' = <<>>
    /\ i_moment' = 1
    /\ pc' = "preflight"
    /\ UNCHANGED <<args, now, faults, output_kind, attempted, written, uncaught,
                   ashVars, momentVars, restVars, reportVars, resolverVars>>

\* variant: a moment counts as complete as soon as one file was found
CompleteSome(archivos) == Len(archivos) >= 1

\* len(files) == len(productos_requeridos)
Complete(archivos) == Len(archivos) = Len(productos)

\* one pass of the pre-flight loop (lines 1206-1211); the resolver unpacks
\* moment_info into four names, which raises ValueError on anything that
\* does not hold exactly four items
PreflightStep ==
    /\ pc = "preflight"
    /\ i_moment <= Len(moment_list)
    /\ moment_info' = moment_list[i_moment]
    /\ IF Len(moment_info') # 4
       THEN /\ uncaught' = "ValueError"
            /\ pc' = "crash"
            /\ UNCHANGED <<archivos_por_producto, lista_archivos, momentos_validos,
                           momentos_fallidos, i_moment>>
       ELSE LET r == get_filelist_from_path(files, l2_path, moment_info',
                                            productos, use_date_tree)
            IN  /\ archivos_por_producto' = r.archivos_por_producto
                /\ lista_archivos' = r.lista_archivos
                /\ IF Complete(r.lista_archivos)
                   THEN /\ momentos_validos' = Append(momentos_validos, moment_info')
                        /\ UNCHANGED momentos_fallidos
                   ELSE /\ momentos_fallidos' =
                               Append(momentos_fallidos, moment_info'[1])
                        /\ UNCHANGED momentos_validos
                /\ i_moment' = i_moment + 1
                /\ UNCHANGED <<pc, uncaught>>
    /\ UNCHANGED <<files, use_date_tree, args, now, faults, output_kind,
                   moment_list, attempted, written, ashVars, momentVars, restVars,
                   reportVars>>

\* after the loop: the report of the failed moments, the two exits with
\* status 0, and the loading of the ephemeris (lines 1213-1233)
ReportFailures ==
    /\ pc = "preflight"
    /\ i_moment > Len(moment_list)
    /\ LET r == group_and_report_failures(momentos_fallidos)
       IN  /\ failed_moments' = r.failed_moments
           /\ momentos_fallidos' = r.failed_moments
           /\ groups' = r.groups
    /\ IF momentos_validos = <<>> \/ args.dry_run
       THEN pc' = "exit0" /\ UNCHANGED <<uncaught, i_moment>>
       ELSE IF faults.ephemeris
       THEN pc' = "crash" /\ uncaught' = "ephemeris" /\ UNCHANGED i_moment
       ELSE pc' = "processing" /\ i_moment' = 1 /\ UNCHANGED uncaught
    /\ UNCHANGED <<args, now, faults, output_kind, moment_list, momentos_validos,
                   attempted, written, ashVars, momentVars, restVars, resolverVars>>

\* str.replace(old, new): every occurrence, from the left
RECURSIVE replace(_, _, _)
replace(str, old, new) ==
    IF Len(str) < Len(old) THEN str
    ELSE IF startswith(str, old)
    THEN new \o replace(Slice(str, Len(old), Len(str)), old, new)
    ELSE <<str[1]>> \o replace(Tail(str), old, new)

TIF == <<".", "t", "i", "f">>
PNG == <<".", "p", "n", "g">>

\* ceniza_[momento].tif, with _geo for a reprojected region
OutputName(moment, clip_geo) ==
    <<"c", "e", "n", "i", "z", "a", "_">> \o moment
    \o (IF clip_geo THEN <<"_", "g", "e", "o">> ELSE <<>>) \o TIF

\* lines 1250-1254
is_directory(outp, kind) ==
    \/ endswith(outp, <<"/">>)
    \/ kind = "dir"
    \/ kind = "none" /\ ~endswith(outp, TIF) /\ ~endswith(outp, PNG)

\* the output file of the i-th valid moment (i from 0), lines 1239-1281:
\* "file" with its path, "raise" when mkdir fails, "break" for a later
\* moment with a single output file
OutputFile(a, kind, mkdir_fails, i, moment) ==
    IF a.output # None
    THEN IF is_directory(a.output, kind)
         THEN IF mkdir_fails \/ kind = "file"
              THEN [to |-> "raise", path |-> <<>>]
              ELSE [to |-> "file",
                    path |-> JoinPath(a.output, OutputName(moment, a.clip_geo))]
         ELSE IF i > 0 THEN [to |-> "break", path |-> <<>>]
         ELSE [to |-> "file", path |-> a.output]
    ELSE [to |-> "file", path |-> OutputName(moment, a.clip_geo)]

\* png_path = Path(str(output_path).replace('.tif', '.png')), line 1116
PngPath(output_path) == replace(output_path, TIF, PNG)

\* main, lines 695-705: the product a returned path is associated with,
\* 0 when with none
RECURSIVE AssociatedProduct(_, _)
AssociatedProduct(archivo_path, k) ==
    IF k > Len(productos) THEN 0
    ELSE LET prod == productos[k]
             is_band_product ==
                 /\ startswith(prod, <<"C">>)
                 /\ Contains(<<"C", "M", "I", "P">>, archivo_path)
                 /\ Contains(prod, archivo_path)
             is_other_product ==
                 ~startswith(prod, <<"C">>) /\ Contains(prod, archivo_path)
         IN  IF is_band_product \/ is_other_product THEN k
             ELSE AssociatedProduct(archivo_path, k + 1)

\* file_paths: the products that got a path
FilePathKeys(archivos) ==
    {AssociatedProduct(archivos[n], 1) : n \in 1..Len(archivos)} \ {0}

\* main up to the opening of the files: "returned" when the resolver does
\* not give the seven files (lines 683-689), "KeyError" when a product got
\* no path (line 711 and after), else "ready"
MainFiles(fs, info, date_tree) ==
    LET archivos == get_filelist_from_path(fs, l2_path, info, productos,
                                           date_tree).lista_archivos
    IN  IF archivos = <<>> \/ Len(archivos) # Len(productos) THEN "returned"
        ELSE IF FilePathKeys(archivos) # 1..Len(productos) THEN "KeyError"
        ELSE "ready"

\* what main does for one moment, as far as files go: nothing is written
\* when it returns early or raises before the end; else the GeoTIFF is
\* written and, with --png, the PNG unless its drawing raises
main(found, info, output_path, create_png, fault) ==
    LET tif == [moment |-> info[1], path |-> output_path, kind |-> "tif"]
        png == [moment |-> info[1], path |-> PngPath(output_path), kind |-> "png"]
    IN  IF found = "returned" THEN [result |-> "returned", writes |-> <<>>]
        ELSE IF found = "KeyError" \/ fault = "open"
        THEN [result |-> "raised", writes |-> <<>>]
        ELSE IF ~create_png THEN [result |-> "ok", writes |-> <<tif>>]
        ELSE IF fault = "png" THEN [result |-> "raised", writes |-> <<tif>>]
        ELSE [result |-> "ok", writes |-> <<tif, png>>]

Faults == {"none", "open", "png"}

\* variant: a single output file is written again for every moment
KeepsGoing(to) == FALSE

\* the break of line 1275
Breaks1275(to) == to = "break"

\* one pass of the processing loop (lines 1235-1299): the output file, then
\* main inside try/except; an exception of main is printed and the loop goes on
ProcessStep ==
    /\ pc = "processing"
    /\ i_moment <= Len(momentos_validos)
    /\ LET info == momentos_validos[i_moment]
           out == OutputFile(args, output_kind, faults.mkdir, i_moment - 1, info[1])
       IN  IF out.to = "raise"
           THEN /\ pc' = "crash"
                /\ uncaught' = "mkdir"
                /\ UNCHANGED <<i_moment, attempted, written, output_kind>>
           ELSE IF Breaks1275(out.to)
           THEN /\ pc' = "done"
                /\ UNCHANGED <<i_moment, attempted, written, output_kind, uncaught>>
           ELSE LET found == MainFiles(files, info, use_date_tree)
                IN  \E fault \in Faults :
                   LET r == main(found, info, out.path, args.png, fault)
                   IN  /\ attempted' = Append(attempted,
                                 [moment |-> info[1], result |-> r.result])
                       /\ written' = written \o r.writes
                       /\ output_kind' =
                              IF args.output = None THEN output_kind
                              ELSE IF is_directory(args.output, output_kind) THEN "dir"
                              ELSE IF r.writes # <<>> THEN "file"
                              ELSE output_kind
                       /\ i_moment' = i_moment + 1
                       /\ UNCHANGED <<pc, uncaught>>
    /\ UNCHANGED <<args, now, faults, moment_list, momentos_validos,
                   momentos_fallidos, ashVars, momentVars, restVars, reportVars,
                   resolverVars>>

\* the loop is over: "Procesamiento completado"
Finish ==
    /\ pc = "processing"
    /\ i_moment > Len(momentos_validos)
    /\ pc' = "done"
    /\ UNCHANGED <<ashVars, momentVars, restVars, extVars>>

NextRun ==
    \/ ParseMoment
    \/ ExpandStep
    \/ ExpandDone
    \/ DefaultMoment
    \/ BeginPreflight
    \/ PreflightStep
    \/ ReportFailures
    \/ ProcessStep
    \/ Finish

SpecRun == InitRun /\ [][NextRun]_vars

(***************************************************************************)
(* C14 - C19: the run                                                      *)
(***************************************************************************)
Range(seq) == {seq[n] : n \in 1..Len(seq)}
JulianOf(infos) == [n \in 1..Len(infos) |-> infos[n][1]]
Terminated == pc \in {"exit0", "exit1", "done", "crash"}

\* the resolver was called for moment_info, a 4-tuple, and has returned
ResolverReturned ==
    moment_info # Unset /\ Len(moment_info) = 4 /\ lista_archivos # Unset

\* the products the resolver found a file for in its last call
ProductsFound ==
    IF archivos_por_producto = Unset THEN {}
    ELSE {k \in 1..Len(productos) : archivos_por_producto[k] # <<>>}

\* C14: the resolver returns one path per product it found a file for, so
\* seven paths exactly when no product is missing; the moment it was called
\* for in the pre-flight check is valid exactly when the seven were found
\* and is recorded as failed otherwise; and every file written, and every
\* call of main, is for a valid moment that is not among the failed ones.
ProcessedOnlyIfComplete ==
    /\ ResolverReturned =>
          /\ Len(lista_archivos) = Cardinality(ProductsFound)
          /\ moment_info \in Range(momentos_validos)
                 <=> ProductsFound = 1..Len(productos)
          /\ moment_info[1] \in Range(momentos_fallidos)
                 <=> ProductsFound # 1..Len(productos)
    /\ \A w \in Range(written) :
          /\ w.moment \in Range(JulianOf(momentos_validos))
          /\ w.moment \notin Range(momentos_fallidos)
    /\ \A a \in Range(attempted) :
          /\ a.moment \in Range(JulianOf(momentos_validos))
          /\ a.moment \notin Range(momentos_fallidos)

\* a range of three moments: the second lacks a product and is failed, the
\* other two are processed and their GeoTIFFs written
ProcessedWitness ==
    /\ pc = "done"
    /\ momentos_fallidos = <<Scan(2)[1]>>
    /\ [n \in 1..Len(written) |-> written[n].moment] = <<Scan(1)[1], Scan(3)[1]>>
    /\ ProductsFound = 1..Len(productos)

\* the directory a moment is searched in does not exist
DirMissing(info) ==
    (IF use_date_tree THEN l2_path \o <<info[2], info[3], info[4]>> ELSE l2_path)
        \notin DOMAIN files

\* the moments of the list the pre-flight check is through with
Checked == Len(momentos_validos) + Len(momentos_fallidos)

\* C15: for a moment whose search directory does not exist the resolver
\* returns the empty list without raising, the moment is recorded as failed
\* and not as valid, and the check goes on: when it is over every moment of
\* the list has been checked and no exception has ended the run.
MissingDirIsFailure ==
    (moment_list # Unset /\ \A n \in 1..Len(moment_list) : Len(moment_list[n]) = 4) =>
        /\ (ResolverReturned /\ DirMissing(moment_info)) =>
               lista_archivos = <<>> /\ uncaught = "none"
        /\ \A n \in 1..Len(moment_list) :
               (n <= Checked /\ DirMissing(moment_list[n])) =>
                   /\ moment_list[n][1] \in Range(momentos_fallidos)
                   /\ moment_list[n] \notin Range(momentos_validos)
        /\ (pc # "preflight" /\ \E n \in 1..Len(moment_list) : DirMissing(moment_list[n])) =>
               /\ Checked = Len(moment_list)
               /\ pc = "exit0"

\* --date-tree with the directory of the day missing: the three moments of
\* the range are failed and reported as one interval
MissingDirWitness ==
    /\ pc = "exit0"
    /\ use_date_tree /\ l2_path \in DOMAIN files
    /\ files[l2_path] # <<>>
    /\ Len(moment_list) = 3 /\ DirMissing(moment_list[1])
    /\ momentos_fallidos = <<Scan(1)[1], Scan(2)[1], Scan(3)[1]>>
    /\ groups = << <<Scan(1)[1], Scan(3)[1]>> >>

AttemptedMoments == [n \in 1..Len(attempted) |-> attempted[n].moment]
IsPrefix(a, b) == Len(a) <= Len(b) /\ a = SubSeq(b, 1, Len(a))

\* --output names one file: a path that is no directory and either exists
\* or ends in .tif or .png
SingleOutputFile ==
    args.output \in {<<"o", "u", "t", ".", "t", "i", "f">>, <<"o", "u", "t", ".", "p", "n", "g">>, <<"o", "u", "t", ".", "d", "a", "t">>}

\* C16 as claimed: when the run is over, main has been called exactly once
\* for every moment that passed the pre-flight check, in the order of the
\* list.
EveryValidAttempted ==
    pc = "done" => AttemptedMoments = JulianOf(momentos_validos)

\* C16: main is called for the valid moments in ascending order, each at
\* most once; a run that reaches its end has called it for every valid
\* moment when --output is absent or a directory, whatever the calls before
\* raised, and for the first valid moment alone when --output names a single
\* file; only a failure to load the ephemeris or to create the output
\* directory ends the run among the valid moments.
ValidAttemptedInOrder ==
    (momentos_validos # Unset /\ pc # "preflight") =>
        /\ IsPrefix(AttemptedMoments, JulianOf(momentos_validos))
        /\ \A n \in 2..Len(attempted) :
               MomentMinute(attempted[n - 1].moment) < MomentMinute(attempted[n].moment)
        /\ pc = "done" =>
               IF SingleOutputFile
               THEN AttemptedMoments = SubSeq(JulianOf(momentos_validos), 1, 1)
               ELSE AttemptedMoments = JulianOf(momentos_validos)
        /\ (pc = "crash" /\ momentos_validos # <<>>) =>
               uncaught \in {"ephemeris", "mkdir"}

\* three valid moments, output in a directory: main raised for the first
\* two and the third was processed all the same
IsolationWitness ==
    /\ pc = "done"
    /\ ~SingleOutputFile
    /\ [n \in 1..Len(attempted) |-> attempted[n].result] = <<"raised", "raised", "ok">>
    /\ Len(momentos_validos) = 3

\* a moment is in one of the intervals printed
InReport(m) == \E n \in 1..Len(groups) : InGroup(groups[n], m)

\* C17: every moment whose processing raised is among the failed moments
\* and in the intervals reported.
ProcessingFailuresReported ==
    pc = "done" =>
        \A a \in Range(attempted) :
            a.result = "raised" =>
                a.moment \in Range(momentos_fallidos) /\ InReport(a.moment)

\* --moment is given and parse_moment_string rejected it
ArgumentError == pc = "exit1" /\ moment_str # <<>> /\ ~outcome.ok

\* C18: the run ends with a status other than 0 only on an argument error;
\* a malformed moment ends it before any file is resolved or processed; and
\* a dry run ends with status 0 after the report, without a call of main
\* and without an output file.
NonZeroOnlyOnArgumentErrors ==
    /\ pc \in {"exit1", "crash"} => ArgumentError
    /\ pc = "exit1" =>
          moment_list = Unset /\ lista_archivos = Unset
          /\ attempted = <<>> /\ written = <<>>
    /\ (args # Unset /\ args.dry_run /\ Terminated /\ ~ArgumentError) =>
          pc = "exit0" /\ groups # Unset /\ attempted = <<>> /\ written = <<>>

\* C19: no two files written in a run have the same path.
OutputPathsDistinct ==
    \A m, n \in 1..Len(written) : m # n => written[m].path # written[n].path


(***************************************************************************)
(* main(): the clip window and the target grid of the reprojection         *)
(* Longitudes and latitudes are integers in units of 1e-7 degree; x and y  *)
(* are integers in half pixels. The projection of the corners is not       *)
(* modelled: its results are drawn from Coords.                            *)
(***************************************************************************)
MaxCoords == 3

\* CLIP_REGIONS: [lon_min, lat_max, lon_max, lat_min]
CLIP_REGIONS ==
    [centromex    |-> <<0 - 1072319400, 227180385, 0 - 938363933, 149386282>>,
     popocatepetl |-> <<0 - 1002622042, 205800993, 0 - 968495200, 182893953>>,
     ashpaper     |-> <<0 - 1024180000, 224740000, 0 - 962940000, 175470000>>]

\* lines 745-752: the box widened by a tenth of its range on each side (the
\* margin to the unit)
Expanded(bbox) ==
    LET lon_margin == (bbox[3] - bbox[1]) \div 10
        lat_margin == (bbox[2] - bbox[4]) \div 10
    IN  <<bbox[1] - lon_margin, bbox[2] + lat_margin,
          bbox[3] + lon_margin, bbox[4] - lat_margin>>

\* lines 744-762: the box whose corners are transformed to metres
ReadBbox(bbox, reproject_to_geo) ==
    IF reproject_to_geo THEN Expanded(bbox) ELSE bbox

\* np.argmin(np.abs(coords - v)): the first 0-based index at least distance
argmin(coords, v) ==
    LET dist(i) == Abs(coords[i] - v)
    IN  (CHOOSE i \in 1..Len(coords) :
            /\ \A j \in 1..Len(coords) : dist(i) <= dist(j)
            /\ \A j \in 1..(i - 1) : dist(j) > dist(i)) - 1

\* variant: the end of the slice is the index itself, the last pixel left out
SliceOpen(lo, hi) == <<lo, hi>>

\* slice(idx_min, idx_max + 1)
SliceOf(lo, hi) == <<lo, hi + 1>>

\* lines 766-781: the indices nearest to two corner values, ordered
IndexSlice(coords, a, b) ==
    LET i == argmin(coords, a)
        j == argmin(coords, b)
    IN  IF i > j THEN SliceOf(j, i) ELSE SliceOf(i, j)

\* np.round(n / d) for n >= 0, d > 0: half goes to the even neighbour
np_round(n, d) ==
    LET q == n \div d
        r == n % d
    IN  IF 2 * r > d \/ (2 * r = d /\ q % 2 = 1) THEN q + 1 ELSE q

\* target_resolution_deg = 0.02
target_resolution_deg == 200000

RECURSIVE GCD(_, _)
GCD(a, b) == IF b = 0 THEN a ELSE GCD(b, a % b)

\* n * (num / den) as a fraction <<num, den>>
Times(n, r) ==
    LET g == GCD(n, r[2]) IN <<(n \div g) * r[1], r[2] \div g>>

\* variant: the nominal resolution kept
nominal_res(range, size) == <<target_resolution_deg, 1>>

\* exact_lon_res = lon_range / dst_width, a fraction
exact_res(range, size) == <<range, size>>

\* lines 1008-1034: size, resolution and affine of the target grid
TargetGrid(bbox) ==
    LET lon_range == bbox[3] - bbox[1]
        lat_range == bbox[2] - bbox[4]
        dst_width == np_round(lon_range, target_resolution_deg)
        dst_height == np_round(lat_range, target_resolution_deg)
    IN  [dst_width |-> dst_width, dst_height |-> dst_height,
         exact_lon_res |-> exact_res(lon_range, dst_width),
         exact_lat_res |-> exact_res(lat_range, dst_height),
         c |-> bbox[1], f |-> bbox[2]]

\* the coordinate arrays: pixel centres, two half pixels apart
Axis(first, n, step) == [i \in 1..n |-> first + step * (i - 1)]
Coords == (0 - 2)..(2 * MaxCoords + 1)
XAxes == {Axis(1, n, 2) : n \in 1..MaxCoords}
YAxes == {Axis(2 * n - 1, n, 0 - 2) : n \in {1, MaxCoords}}
            \cup {Axis(1, MaxCoords, 2)}
YCorners == {0 - 2, 1, 2, 2 * MaxCoords + 1}
ClipRegions ==
    {[base |-> b, geo |-> g] : b \in DOMAIN CLIP_REGIONS, g \in {TRUE}}
        \cup {[base |-> "centromex", geo |-> FALSE]}

InitClip ==
    /\ pc = "clip"
    /\ clip_region \in ClipRegions
    /\ x_coords_full \in XAxes
    /\ y_coords_full \in YAxes
    /\ \E x_min, x_max \in Coords, y_min, y_max \in YCorners :
          corners = [x_min |-> x_min, y_min |-> y_min,
                     x_max |-> x_max, y_max |-> y_max]
    /\ read_bbox = Unset /\ x_slice = Unset /\ y_slice = Unset
    /\ reads = Unset /\ target = Unset
    /\ AshUnset /\ MomentUnset /\ RasterUnset /\ KernelUnset
    /\ BlockUnset /\ PngUnset /\ ClockUnset /\ ExtUnset

\* lines 734-781
ComputeWindow ==
    /\ pc = "clip"
    /\ read_bbox' = ReadBbox(CLIP_REGIONS[clip_region.base], clip_region.geo)
    /\ x_slice' = IndexSlice(x_coords_full, corners.x_min, corners.x_max)
    /\ y_slice' = IndexSlice(y_coords_full, corners.y_max, corners.y_min)
    /\ pc' = "window"
    /\ UNCHANGED <<clip_region, x_coords_full, y_coords_full, corners, reads,
                   target, ashVars, momentVars, rasterVars, kernelVars,
                   blockVars, pngVars, clockVars, extVars>>

\* lines 840-859: ds[...].data[y_slice, x_slice] for each product
ReadProducts ==
    /\ pc = "window"
    /\ reads' = [prod \in {productos[k] : k \in 1..Len(productos)} |->
                    <<y_slice, x_slice>>]
    /\ pc' = "read"
    /\ UNCHANGED <<clip_region, read_bbox, x_coords_full, y_coords_full,
                   corners, x_slice, y_slice, target, ashVars, momentVars,
                   rasterVars, kernelVars, blockVars, pngVars, clockVars, extVars>>

\* lines 1003-1047: with a geo region the raster is reprojected to the grid
Reproject ==
    /\ pc = "read"
    /\ target' = IF clip_region.geo
                 THEN TargetGrid(CLIP_REGIONS[clip_region.base])
                 ELSE <<"native">>
    /\ pc' = "grid"
    /\ UNCHANGED <<clip_region, read_bbox, x_coords_full, y_coords_full,
                   corners, x_slice, y_slice, reads, ashVars, momentVars,
                   rasterVars, kernelVars, blockVars, pngVars, clockVars, extVars>>

NextClip ==
    \/ ComputeWindow
    \/ ReadProducts
    \/ Reproject

SpecClip == InitClip /\ [][NextClip]_vars

(***************************************************************************)
(* genera_media_dst on arrays with arbitrary NaN patterns                  *)
(***************************************************************************)
KernelShapes == {<<1, 4>>, <<4, 2>>, <<3, 3>>}
KernelValues == {NaN, F(10), F(0 - 5)}
Grid(shape) == (1..shape[1]) \X (1..shape[2])

InitKernel ==
    /\ pc = "array"
    /\ \E shape \in KernelShapes : arreglo \in [Grid(shape) -> KernelValues]
    /\ local_mean = Unset
    /\ AshUnset /\ MomentUnset /\ RasterUnset /\ ClipUnset
    /\ BlockUnset /\ PngUnset /\ ClockUnset /\ ExtUnset

\* lines 429-443
LocalMean ==
    /\ pc = "array"
    /\ local_mean' = kernel_media(arreglo, kernel_size)
    /\ pc' = "filtered"
    /\ UNCHANGED <<arreglo, ashVars, momentVars, rasterVars, clipVars,
                   blockVars, pngVars, clockVars, extVars>>

NextKernel == LocalMean

SpecKernel == InitKernel /\ [][NextKernel]_vars

(***************************************************************************)
(* C23: the local mean                                                     *)
(***************************************************************************)
Filtered == pc = "filtered"
FiniteCells(p) == FiniteIn(arreglo, Window(p, kernel_size, DOMAIN arreglo))
CellValues == [q \in DOMAIN arreglo |->
                  IF isfinite(arreglo[q]) THEN Val(arreglo[q]) ELSE 0]
AllFinite == \A q \in DOMAIN arreglo : isfinite(arreglo[q])

GridDone == pc = "grid"
WindowRead == pc \in {"read", "grid"}
Min(a, b) == IF a < b THEN a ELSE b
Max(a, b) == IF a < b THEN b ELSE a
RequestedBbox == CLIP_REGIONS[clip_region.base]

\* lon_min + width * res_lon, a fraction
GridRight == Times(target.dst_width, target.exact_lon_res)
GridDown == Times(target.dst_height, target.exact_lat_res)

\* C21: with a geo clip region the target grid covers exactly the unpadded
\* clip bbox: width and height are round(range / 0.02), the origin is
\* (lon_min, lat_max), lon_min + width * res_lon = lon_max and
\* lat_max - height * res_lat = lat_min; the padded box is only the one read.
TargetGridExact ==
    (GridDone /\ clip_region.geo) =>
        LET b == RequestedBbox
        IN  /\ 2 * Abs(b[3] - b[1] - target.dst_width * target_resolution_deg)
                  <= target_resolution_deg
            /\ 2 * Abs(b[2] - b[4] - target.dst_height * target_resolution_deg)
                  <= target_resolution_deg
            /\ target.c = b[1] /\ target.f = b[2]
            /\ GridRight[1] = GridRight[2] * (b[3] - target.c)
            /\ GridDown[1] = GridDown[2] * (target.f - b[4])
            /\ read_bbox[1] < target.c /\ read_bbox[2] > target.f
            /\ read_bbox[3] > b[3] /\ read_bbox[4] < b[4]

\* a reprojected run whose grid is not a whole number of nominal cells
TargetGridWitness ==
    /\ GridDone /\ clip_region.geo
    /\ target.dst_width * target_resolution_deg # RequestedBbox[3] - RequestedBbox[1]
    /\ target.dst_width > 100 /\ target.dst_height > 100

\* the 0-based indices of the centres nearest to v
Nearest(coords, v) ==
    {i - 1 : i \in {k \in 1..Len(coords) :
        \A j \in 1..Len(coords) : Abs(coords[k] - v) <= Abs(coords[j] - v)}}
EndsNearest(coords, sl, a, b) ==
    \E i \in Nearest(coords, a), j \in Nearest(coords, b) :
        sl = <<Min(i, j), Max(i, j) + 1>>
NonEmptyInBounds(coords, sl) ==
    0 <= sl[1] /\ sl[1] < sl[2] /\ sl[2] <= Len(coords)
\* the world extent of the pixels of a slice: centres widened by half a pixel
ExtentLow(coords, sl) == Min(coords[sl[1] + 1], coords[sl[2]]) - 1
ExtentHigh(coords, sl) == Max(coords[sl[1] + 1], coords[sl[2]]) + 1
ContainsBox(coords, sl, a, b) ==
    ExtentLow(coords, sl) <= Min(a, b) /\ Max(a, b) <= ExtentHigh(coords, sl)
SmallestSlice(coords, sl, a, b) ==
    \A lo \in sl[1]..(sl[2] - 1) : \A hi \in (lo + 1)..sl[2] :
        (<<lo, hi>> # sl) => ~ContainsBox(coords, <<lo, hi>>, a, b)
InsideArray(coords, a, b) == ContainsBox(coords, <<0, Len(coords)>>, a, b)
Midway(coords, v) ==
    \E i, j \in 1..Len(coords) :
        i # j /\ Abs(coords[i] - v) = 1 /\ Abs(coords[j] - v) = 1
SameSliceForAll ==
    /\ DOMAIN reads = {productos[k] : k \in 1..Len(productos)}
    /\ Cardinality(DOMAIN reads) = 7
    /\ \A prod \in DOMAIN reads : reads[prod] = <<y_slice, x_slice>>

\* C22 as stated: for any bbox the window is a non-empty inclusive slice
\* inside the arrays, ending at the pixels nearest to the corners, and the
\* smallest slice whose extent contains the bbox to within half a pixel;
\* the seven products are read with it.
WindowSmallestForAnyBbox ==
    WindowRead =>
        /\ NonEmptyInBounds(x_coords_full, x_slice)
        /\ NonEmptyInBounds(y_coords_full, y_slice)
        /\ EndsNearest(x_coords_full, x_slice, corners.x_min, corners.x_max)
        /\ EndsNearest(y_coords_full, y_slice, corners.y_max, corners.y_min)
        /\ ContainsBox(x_coords_full, x_slice, corners.x_min, corners.x_max)
        /\ ContainsBox(y_coords_full, y_slice, corners.y_min, corners.y_max)
        /\ SmallestSlice(x_coords_full, x_slice, corners.x_min, corners.x_max)
        /\ SmallestSlice(y_coords_full, y_slice, corners.y_min, corners.y_max)
        /\ SameSliceForAll

\* C22, amended: the window is always a non-empty slice inside the arrays
\* ending at the pixels nearest to the corners, the same for the seven
\* products; it contains the bbox to within half a pixel when the bbox lies
\* within the extent of the arrays, and is then the smallest such slice
\* unless a corner lies midway between two pixel centres.
WindowNearestCorners ==
    WindowRead =>
        /\ NonEmptyInBounds(x_coords_full, x_slice)
        /\ NonEmptyInBounds(y_coords_full, y_slice)
        /\ EndsNearest(x_coords_full, x_slice, corners.x_min, corners.x_max)
        /\ EndsNearest(y_coords_full, y_slice, corners.y_max, corners.y_min)
        /\ SameSliceForAll
        /\ InsideArray(x_coords_full, corners.x_min, corners.x_max) =>
              /\ ContainsBox(x_coords_full, x_slice, corners.x_min, corners.x_max)
              /\ (~Midway(x_coords_full, corners.x_min)
                    /\ ~Midway(x_coords_full, corners.x_max)) =>
                    SmallestSlice(x_coords_full, x_slice,
                                  corners.x_min, corners.x_max)
        /\ InsideArray(y_coords_full, corners.y_min, corners.y_max) =>
              /\ ContainsBox(y_coords_full, y_slice, corners.y_min, corners.y_max)
              /\ (~Midway(y_coords_full, corners.y_min)
                    /\ ~Midway(y_coords_full, corners.y_max)) =>
                    SmallestSlice(y_coords_full, y_slice,
                                  corners.y_min, corners.y_max)

\* a window strictly inside the arrays, read for the seven products
WindowWitness ==
    /\ WindowRead
    /\ InsideArray(x_coords_full, corners.x_min, corners.x_max)
    /\ InsideArray(y_coords_full, corners.y_min, corners.y_max)
    /\ x_slice[1] > 0 /\ x_slice[2] < Len(x_coords_full)
    /\ y_slice[2] - y_slice[1] = 2 /\ Len(y_coords_full) > 2
    /\ corners.x_min < corners.x_max

(***************************************************************************)
(* C29: code 1 through the refinements                                     *)
(***************************************************************************)
\* C29: for a valid pixel the final code is 1 exactly when the regime code
\* is 1 and delta3 > 0: the U1 refinement and the cloud-phase refinement
\* leave code 1 alone, the U2 rule resets it to 0 exactly when delta3 <= 0,
\* and no rule raises another code to 1.
CodeOneIffTimeOneAndDelta3 ==
    pc \in {"classified", "saved"} =>
        \A p \in Pixels :
            valid_data_mask[p] =>
                /\ ceniza[p] = 1 <=>
                      (ceniza_tiempo[p] = 1 /\ Gt(delta[p].d3, F(0)))
                /\ ceniza_um1[p] = 1 <=> ceniza_tiempo[p] = 1
                /\ ceniza_um2[p] = 1 <=>
                      (ceniza_um1[p] = 1 /\ ~Le(delta[p].d3, F(0)))
                /\ ceniza[p] = 1 <=> ceniza_um2[p] = 1

\* a valid pixel with regime code 1 reset by the U2 rule at delta3 = 0
CodeOneWitness ==
    /\ pc = "classified"
    /\ \E p \in Pixels :
          /\ valid_data_mask[p]
          /\ ceniza_tiempo[p] = 1
          /\ delta[p].d3 = F(0)
          /\ ceniza[p] = 0

(***************************************************************************)
(* C28, C30: what main and the pre-flight check are handed                 *)
(***************************************************************************)
\* the paths the resolver returns to main for a moment
ResolvedFor(info) ==
    get_filelist_from_path(files, l2_path, info, productos,
                           use_date_tree).lista_archivos

DefaultMomentIsRecord ==
    (moment_str = <<>> /\ moment_list # Unset) =>
        /\ Len(moment_list) = 1
        /\ Len(moment_list[1]) = 4
        /\ uncaught # "ValueError"

(***************************************************************************)
(* genera_media_dst: the standard deviation by row blocks                  *)
(* The array has n_cols equal columns: a window holds the same rows of     *)
(* each of its columns, so its standard deviation is that of the rows of   *)
(* one column, and the array is kept as that column.                       *)
(***************************************************************************)
MaxJobs == 3

\* ndimage.generic_filter(block, np.nanstd, size=k, mode='constant',
\* cval=np.nan) on a column: row r sees the rows within k // 2 of it that
\* the block holds, the others being NaN
generic_filter_nanstd(block, k) ==
    [r \in 1..Len(block) |->
        nanstd(block, {q \in 1..Len(block) :
                          Abs(q - r) <= k \div 2 /\ isfinite(block[q])})]

\* variant: blocks cut without overlap
no_overlap(k) == 0

\* overlap = kernel_size // 2
overlap(k) == k \div 2

\* lines 464-465
n_blocks_of(rows, jobs, k) == Max(1, Min(jobs, rows \div (k * 10)))

\* lines 467-485: (start_row, end_row, block_start) and the end of the block
BlockIndices(rows, jobs, k) ==
    LET n_blocks == n_blocks_of(rows, jobs, k)
        rows_per_block == rows \div n_blocks
    IN  [b \in 1..n_blocks |->
            LET start_row == (b - 1) * rows_per_block
                end_row == IF b = n_blocks THEN rows ELSE b * rows_per_block
            IN  [start_row |-> start_row, end_row |-> end_row,
                 block_start |-> Max(0, start_row - overlap(k)),
                 block_end |-> Min(rows, end_row + overlap(k))]]

\* lines 492-497: kernel_std = np.empty(...) filled block by block; a row no
\* block writes keeps whatever the memory held
Uninitialised == <<"uninitialised">>
RECURSIVE Assembled(_, _, _, _)
Assembled(idx, res, b, acc) ==
    IF b > Len(idx) THEN acc
    ELSE LET offset == idx[b].start_row - idx[b].block_start
         IN  Assembled(idx, res, b + 1,
                 [r \in 1..Len(acc) |->
                     IF idx[b].start_row < r /\ r <= idx[b].end_row
                     THEN res[b][offset + r - idx[b].start_row]
                     ELSE acc[r]])

BlockRows == {7, 99, 100, 101, 152}
BlockCols == {1, 20000, 200000}
NaNRuns == {<<0, 0>>, <<49, 1>>, <<50, 6>>, <<51, 1>>, <<100, 6>>}
ColumnOf(rows, run) ==
    [r \in 1..rows |->
        IF run[1] <= r /\ r < run[1] + run[2] THEN NaN ELSE F((r * r) % 7)]

InitBlocks ==
    /\ pc = "std"
    /\ \E rows \in BlockRows, run \in NaNRuns : column = ColumnOf(rows, run)
    /\ n_cols \in BlockCols
    /\ n_jobs \in 1..MaxJobs
    /\ indices = Unset /\ results = Unset /\ kernel_std_out = Unset
    /\ AshUnset /\ MomentUnset /\ RasterUnset /\ ClipUnset /\ KernelUnset
    /\ PngUnset /\ ClockUnset /\ ExtUnset

\* lines 450-457: one process, or fewer than a million pixels
SequentialStd ==
    /\ pc = "std"
    /\ n_jobs = 1 \/ Len(column) * n_cols < 1000000
    /\ kernel_std_out' = generic_filter_nanstd(column, kernel_size)
    /\ pc' = "std_done"
    /\ UNCHANGED <<column, n_cols, n_jobs, indices, results, ashVars,
                   momentVars, rasterVars, clipVars, kernelVars, pngVars,
                   clockVars, extVars>>

\* lines 458-485
SplitBlocks ==
    /\ pc = "std"
    /\ ~(n_jobs = 1 \/ Len(column) * n_cols < 1000000)
    /\ indices' = BlockIndices(Len(column), n_jobs, kernel_size)
    /\ results' = [b \in DOMAIN indices' |-> Unset]
    /\ pc' = "workers"
    /\ UNCHANGED <<column, n_cols, n_jobs, kernel_std_out, ashVars,
                   momentVars, rasterVars, clipVars, kernelVars, pngVars,
                   clockVars, extVars>>

\* lines 487-489 and _process_block_std: the workers finish in any order
ProcessBlock ==
    /\ pc = "workers"
    /\ \E b \in DOMAIN results :
          /\ results[b] = Unset
          /\ results' = [results EXCEPT ![b] =
                generic_filter_nanstd(
                    SubSeq(column, indices[b].block_start + 1,
                           indices[b].block_end),
                    kernel_size)]
    /\ UNCHANGED <<pc, column, n_cols, n_jobs, indices, kernel_std_out,
                   ashVars, momentVars, rasterVars, clipVars, kernelVars,
                   pngVars, clockVars, extVars>>

\* lines 491-497, once executor.map has every result
Assemble ==
    /\ pc = "workers"
    /\ \A b \in DOMAIN results : results[b] # Unset
    /\ kernel_std_out' =
          Assembled(indices, results, 1, [r \in 1..Len(column) |-> Uninitialised])
    /\ pc' = "std_done"
    /\ UNCHANGED <<column, n_cols, n_jobs, indices, results, ashVars,
                   momentVars, rasterVars, clipVars, kernelVars, pngVars,
                   clockVars, extVars>>

NextBlocks ==
    \/ SequentialStd
    \/ SplitBlocks
    \/ ProcessBlock
    \/ Assemble

SpecBlocks == InitBlocks /\ [][NextBlocks]_vars

(***************************************************************************)
(* C27: the parallel standard deviation                                    *)
(***************************************************************************)
Parallel == indices # Unset
HalfKernel == kernel_size \div 2

\* C27: in the parallel path the row blocks [start_row, end_row) cover every
\* row exactly once, each block is extended by k // 2 rows on each interior
\* side, and the reassembled standard deviation equals, row for row, the
\* sequential filter on the whole array.
BlocksEqualSequential ==
    /\ Parallel =>
          /\ \A r \in 0..(Len(column) - 1) :
                Cardinality({b \in DOMAIN indices :
                    indices[b].start_row <= r /\ r < indices[b].end_row}) = 1
          /\ \A b \in DOMAIN indices :
                /\ indices[b].start_row < indices[b].end_row
                /\ indices[b].end_row <= Len(column)
                /\ indices[b].block_start
                      = Max(0, indices[b].start_row - HalfKernel)
                /\ indices[b].block_end
                      = Min(Len(column), indices[b].end_row + HalfKernel)
    /\ (Parallel /\ pc = "std_done") =>
          \A r \in 1..Len(column) :
              kernel_std_out[r]
                  = nanstd(column, {q \in 1..Len(column) :
                        Abs(q - r) <= HalfKernel /\ isfinite(column[q])})

\* three blocks reassembled, with missing values across a block boundary
BlocksWitness ==
    /\ Parallel /\ pc = "std_done"
    /\ Len(indices) = 3
    /\ ~isfinite(column[50]) /\ ~isfinite(column[51])
    /\ kernel_std_out[53] = NaN

(***************************************************************************)
(* create_color_png and MapDrawer: the decoration of the PNG               *)
(***************************************************************************)
MaxPngs == 2

\* MapDrawer._layers
Layers ==
    [COASTLINE |-> "shapefiles/ne_10m_coastline.shp",
     COUNTRIES |-> "shapefiles/ne_10m_admin_0_countries.shp",
     MEXSTATES |-> "shapefiles/mexico_estados_2023_wgs84_lines.shp"]
LayerPaths == {Layers[k] : k \in DOMAIN Layers}

\* lines 606-609: the layers drawn for a local and for a wide domain
LayerSelections ==
    {<<"MEXSTATES">>, <<"COASTLINE", "COUNTRIES", "MEXSTATES">>}

InitPng ==
    /\ pc = "png_call"
    /\ \E n \in 1..MaxPngs : png_moments = [m \in 1..n |-> m]
    /\ png_i = 1
    /\ has_timestamp \in BOOLEAN
    /\ layer_selection \in LayerSelections
    /\ layer_i = 0
    /\ shp_cache = {}
    /\ disk_reads = [path \in LayerPaths |-> 0]
    /\ steps = <<>>
    /\ png_saved = <<>>
    /\ AshUnset /\ MomentUnset /\ RasterUnset /\ ClipUnset /\ KernelUnset
    /\ BlockUnset /\ ClockUnset /\ ExtUnset

Step(name, how) == [step |-> name, outcome |-> how]

\* lines 571-602: without bounds nothing is decorated; a failure to set the
\* mapper up is caught by the outer handler of line 645; a new MapDrawer
\* starts with an empty _shp_cache (mapdrawer.py line 29)
CreateColorPng ==
    /\ pc = "png_call"
    /\ \E bounds \in BOOLEAN, mapper_fails \in BOOLEAN :
          IF ~bounds
          THEN /\ steps' = <<>>
               /\ pc' = "png_save"
               /\ UNCHANGED shp_cache
          ELSE IF mapper_fails
          THEN /\ steps' = <<Step("mapper", "raised")>>
               /\ pc' = "png_save"
               /\ UNCHANGED shp_cache
          ELSE /\ steps' = <<Step("mapper", "made")>>
               /\ shp_cache' = {}
               /\ pc' = "png_layers"
    /\ layer_i' = 1
    /\ UNCHANGED <<png_moments, png_i, has_timestamp, layer_selection,
                   disk_reads, png_saved, ashVars, momentVars, rasterVars,
                   clipVars, kernelVars, blockVars, clockVars, extVars>>

\* variant: the first layer that raises ends the decoration
AfterLayerAbort(i, n, how) ==
    IF how = "raised" THEN "png_save"
    ELSE IF i < n THEN "png_layers" ELSE "png_logo"

\* lines 610-614: the handler is inside the loop, so the loop goes on after
\* any outcome, and on to the logo after the last layer
AfterLayer(i, n, how) == IF i < n THEN "png_layers" ELSE "png_logo"

\* mapdrawer.py lines 131-193 for one layer: what it does to the cache and
\* to the disk, and how it ends; fault is what goes wrong
draw_shapefile(path, cache, n_reads, fault) ==
    IF path \notin cache /\ fault = "reader"
    THEN [cache |-> cache, reads |-> n_reads, outcome |-> "unread"]
    ELSE [cache |-> cache \cup {path},
          reads |-> IF path \in cache THEN n_reads
                    ELSE [n_reads EXCEPT ![path] = @ + 1],
          outcome |-> IF fault = "draw" THEN "raised" ELSE "drawn"]

\* lines 610-614 and mapdrawer.py lines 207-223
DrawLayer ==
    /\ pc = "png_layers"
    /\ \E fault \in {"none", "reader", "draw"} :
          LET key == layer_selection[layer_i]
              r == draw_shapefile(Layers[key], shp_cache, disk_reads, fault)
          IN  /\ shp_cache' = r.cache
              /\ disk_reads' = r.reads
              /\ steps' = Append(steps, Step(key, r.outcome))
              /\ pc' = AfterLayer(layer_i, Len(layer_selection), r.outcome)
    /\ layer_i' = layer_i + 1
    /\ UNCHANGED <<png_moments, png_i, has_timestamp, layer_selection,
                   png_saved, ashVars, momentVars, rasterVars, clipVars,
                   kernelVars, blockVars, clockVars, extVars>>

\* lines 616-620 and mapdrawer.py lines 225-247: a missing logo returns, any
\* other failure is raised and caught by the caller
DrawLogo ==
    /\ pc = "png_logo"
    /\ \E how \in {"drawn", "missing", "raised"} :
          steps' = Append(steps, Step("logo", how))
    /\ pc' = "png_fecha"
    /\ UNCHANGED <<png_moments, png_i, has_timestamp, layer_selection, layer_i,
                   shp_cache, disk_reads, png_saved, ashVars, momentVars,
                   rasterVars, clipVars, kernelVars, blockVars, clockVars, extVars>>

\* lines 622-627 and mapdrawer.py lines 249-309
DrawFecha ==
    /\ pc = "png_fecha"
    /\ IF has_timestamp
       THEN \E how \in {"drawn", "default font", "failed"} :
               steps' = Append(steps, Step("fecha", how))
       ELSE UNCHANGED steps
    /\ pc' = "png_legend"
    /\ UNCHANGED <<png_moments, png_i, has_timestamp, layer_selection, layer_i,
                   shp_cache, disk_reads, png_saved, ashVars, momentVars,
                   rasterVars, clipVars, kernelVars, blockVars, clockVars, extVars>>

\* lines 629-643 and mapdrawer.py lines 310-400
DrawLegend ==
    /\ pc = "png_legend"
    /\ \E how \in {"drawn", "default font", "raised"} :
          steps' = Append(steps, Step("legend", how))
    /\ pc' = "png_save"
    /\ UNCHANGED <<png_moments, png_i, has_timestamp, layer_selection, layer_i,
                   shp_cache, disk_reads, png_saved, ashVars, momentVars,
                   rasterVars, clipVars, kernelVars, blockVars, clockVars, extVars>>

\* line 649, and the next moment of the run
SavePng ==
    /\ pc = "png_save"
    /\ png_saved' = Append(png_saved, png_moments[png_i])
    /\ png_i' = png_i + 1
    /\ pc' = IF png_i < Len(png_moments) THEN "png_call" ELSE "png_done"
    /\ UNCHANGED <<png_moments, has_timestamp, layer_selection, layer_i,
                   shp_cache, disk_reads, steps, ashVars, momentVars,
                   rasterVars, clipVars, kernelVars, blockVars, clockVars, extVars>>

NextPng ==
    \/ CreateColorPng
    \/ DrawLayer
    \/ DrawLogo
    \/ DrawFecha
    \/ DrawLegend
    \/ SavePng

SpecPng == InitPng /\ [][NextPng]_vars

(***************************************************************************)
(* C24, C26: failures of the decoration, and the cache of vector layers    *)
(***************************************************************************)
StepNames == [k \in 1..Len(steps) |-> steps[k].step]
Decorations ==
    <<"mapper">> \o layer_selection \o <<"logo">>
        \o (IF has_timestamp THEN <<"fecha">> ELSE <<>>) \o <<"legend">>
MapperMade == steps # <<>> /\ steps[1] = Step("mapper", "made")
Failed(k) == steps[k].outcome \in {"raised", "unread", "missing", "failed"}

\* C24: whatever fails while decorating, the PNG of every moment is saved, and
\* a failed layer does not keep the following layers, the logo, the timestamp
\* and the legend from being attempted.
DecorationFailuresNotFatal ==
    /\ pc \in {"png_call", "png_layers", "png_logo", "png_fecha",
               "png_legend", "png_save", "png_done"}
    /\ png_saved = SubSeq(png_moments, 1, png_i - 1)
    /\ pc = "png_done" => png_saved = png_moments
    /\ (pc \in {"png_save", "png_done"} /\ MapperMade) => StepNames = Decorations
    /\ \A k \in 1..Len(steps) :
          (Failed(k) /\ k < Len(Decorations) /\ MapperMade
             /\ pc \notin {"png_layers", "png_logo", "png_fecha", "png_legend"})
            => Len(steps) > k

\* a run that saved its PNG after the first of three layers raised, the
\* logo was missing and the legend raised
DecorationWitness ==
    /\ pc = "png_done"
    /\ Len(steps) >= 6
    /\ steps[2].outcome = "raised"
    /\ \E k \in 1..Len(steps) : steps[k] = Step("logo", "missing")
    /\ steps[Len(steps)] = Step("legend", "raised")

ClockDays == {<<2023, 1, 1>>, <<2023, 7, 14>>, <<2024, 3, 1>>, <<2024, 12, 31>>}
ClockTimes ==
    {Dt(d[1], d[2], d[3], hh, mm) : d \in ClockDays, hh \in {0, 1, 23}, mm \in 0..59}

InitClock ==
    /\ pc = "clock"
    /\ utc_now \in ClockTimes
    /\ conus \in BOOLEAN
    /\ moment_now = Unset
    /\ AshUnset /\ MomentUnset /\ RasterUnset /\ ClipUnset /\ KernelUnset
    /\ BlockUnset /\ PngUnset /\ ExtUnset

GetMoment ==
    /\ pc = "clock"
    /\ moment_now' = get_moment(utc_now, conus)
    /\ pc' = "moment"
    /\ UNCHANGED <<utc_now, conus, ashVars, momentVars, rasterVars, clipVars,
                   kernelVars, blockVars, pngVars, extVars>>

NextClock == GetMoment

SpecClock == InitClock /\ [][NextClock]_vars

(***************************************************************************)
(* C25: the most recent scan minute                                        *)
(***************************************************************************)
MomentRead == strptime_YjHM(moment_now)
\* minutes from the moment returned to the time of the clock
Lag == MinutesBetween(MomentRead[1], utc_now)

\* C25: get_moment returns a moment not later than now whose minute is in
\* {1, 6, ..., 56} for CONUS and in {0, 10, ..., 50} for full disk; for CONUS
\* it is the most recent such minute at or before now, and minute 56 of the
\* hour before (of the day before at hour 0) when the current minute is 0.
MostRecentScanMinute ==
    pc = "moment" =>
        /\ MomentRead # <<>>
        /\ Lag >= 0
        /\ conus => MomentRead[1].minute % 5 = 1 /\ Lag <= 4
        /\ ~conus => MomentRead[1].minute % 10 = 0
        /\ (conus /\ utc_now.minute = 0) =>
              /\ MomentRead[1].minute = 56
              /\ MomentRead[1].hour = (utc_now.hour + 23) % 24
              /\ Lag = 4

\* the CONUS moment asked for at midnight of 1 January: 23:56 of 31 December
MostRecentWitness ==
    /\ pc = "moment" /\ conus
    /\ utc_now = Dt(2023, 1, 1, 0, 0)
    /\ MomentRead[1].year = 2022 /\ MomentRead[1].hour = 23

==========================================================================
